---- MODULE Spec2Model ----
(***************************************************************************)
(* Fire resistance of a concrete-filled steel tube column                  *)
(* (krygennadij/fire_column_app): the calculation core of app/utils.py and *)
(* app/calculations.py, the validators of app/validation.py, and the       *)
(* selection of the thermal series, the capacity curve and the search of   *)
(* the fire resistance limit of app/main.py.                               *)
(*                                                                         *)
(* Arithmetic.  The program computes in Python floats; the model computes  *)
(* exactly, in integers of a fixed unit:                                   *)
(*   - temperatures in whole degrees Celsius;                              *)
(*   - the coefficients gamma_st, gamma_bt and phi in millionths           *)
(*     (1.00 is 1000000), the strain in millionths of a per mille          *)
(*     (2.5 is 2500000);                                                   *)
(*   - the slenderness in thousandths (1.0 is 1000);                       *)
(*   - lengths in whole millimetres, areas in units of pi mm^2, second     *)
(*     moments of area in units of pi/4 mm^4;                              *)
(*   - in the sums of capacity and stiffness, the coefficients in units of *)
(*     0.005 (CoeffGrain millionths) and the strain in units of 0.5 per    *)
(*     mille (StrainGrain), moduli in MPa; N_total is then in units of     *)
(*     pi * 5e-6 kN and total_stiffness in units of pi/4 * 1e-9 kN m^2.    *)
(* With these units every division of the modelled code is exact on the    *)
(* inputs the specifications draw (ExactTables and ExactSums below state   *)
(* it).  TLC's integers have 32 bits, which is why the sums are taken over *)
(* small sections and a small steel modulus; the formulas are those of the *)
(* code.  An absent value (Python None) is the empty tuple, a present      *)
(* value x the 1-tuple <<x>>.                                              *)
(***************************************************************************)
EXTENDS Integers, Sequences, FiniteSets

VARIABLES
    lookup_fn,      \* the table function applied last ("none" before any call)
    lookup_arg,     \* its argument: temp_celsius, or slenderness
    lookup_result,  \* what it returned
    \* the arguments of the calculation functions
    thermal_data,               \* the thermal series: a sequence of records
    fire_exposure_time_sec,
    diameter_mm,
    thickness_mm,
    num_rings,
    ring_thicknesses,           \* None, or <<plan>>: plan a sequence of None and <<mm>>
    height_m,
    effective_length_coeff,
    steel_strength_mpa,
    concrete_strength_mpa,
    steel_elastic_modulus_mpa,
    use_reinforcement,
    rebar_diameter_mm,
    rebar_count,
    \* the functions that have returned, and what they returned
    called,
    thermal_record,             \* get_thermal_record_for_time
    rings,                      \* discretize_concrete_core_into_rings
    N_total,                    \* calculate_capacity_for_time
    total_stiffness,            \* calculate_stiffness_for_time
    N_parts,                    \* what each component added to N_total
    EI_parts,                   \* what each component added to total_stiffness
    raised,                     \* the functions that raised instead of returning
    evals,                      \* the evaluations of calculate_final_capacity under way
    \* the application (app/main.py, app/validation.py)
    validation,                 \* the validator called last: its name, arguments and result
    datasets,                   \* main.py's thermal_data: the series loaded, by (diameter, thickness)
    closest_data,               \* get_closest_thermal_data: None, or <<series>>
    normative_load,
    rebar_strength_normative,
    N_final_list,               \* the capacity at the grid times 0, 1, .. minutes
    fire_limit_time,            \* the limit found on the capacity chart
    fire_resistance_limit_n,    \* the limit found on the safety factor chart
    pc                          \* where the application stands

lookupVars == <<lookup_fn, lookup_arg, lookup_result>>

seriesVars == <<thermal_data, fire_exposure_time_sec>>

geometryVars ==
    <<diameter_mm, thickness_mm, num_rings, ring_thicknesses, height_m, effective_length_coeff>>

materialVars == <<steel_strength_mpa, concrete_strength_mpa, steel_elastic_modulus_mpa,
                  use_reinforcement, rebar_diameter_mm, rebar_count>>

inputVars == <<seriesVars, geometryVars, materialVars>>

resultVars ==
    <<called, thermal_record, rings, N_total, total_stiffness, N_parts, EI_parts, raised, evals>>

appVars ==
    <<validation, datasets, closest_data, normative_load, rebar_strength_normative,
      N_final_list, fire_limit_time, fire_resistance_limit_n, pc>>

vars == <<lookupVars, inputVars, resultVars, appVars>>

None == <<>>
Some(x) == <<x>>
Val(v) == v[1]

(***************************************************************************)
(* Bounds of the inputs.                                                   *)
(***************************************************************************)
\* temperatures MinTemp - 40 .. MaxTemp are looked up (MinTemp is below the
\* first breakpoint, MaxTemp above the last)
MaxTemp == 1230
\* slendernesses -100 .. MaxSlenderness (thousandths) are looked up
MaxSlenderness == 3100

TempInputs == (0 - 40) .. MaxTemp
SlendernessInputs == (0 - 100) .. MaxSlenderness

(***************************************************************************)
(* The tables of app/utils.py and app/calculations.py.                     *)
(***************************************************************************)
SteelTable ==
    << <<20, 1000000>>, <<100, 1000000>>, <<200, 900000>>, <<300, 800000>>,
       <<400, 700000>>, <<500, 600000>>, <<600, 310000>>, <<700, 130000>>,
       <<800, 90000>>, <<900, 67500>>, <<1000, 45000>>, <<1100, 22500>>,
       <<1200, 0>> >>

ConcreteTable ==
    << <<20, 1000000>>, <<100, 1000000>>, <<200, 950000>>, <<300, 850000>>,
       <<400, 750000>>, <<500, 600000>>, <<600, 450000>>, <<700, 300000>>,
       <<800, 150000>>, <<900, 80000>>, <<1000, 40000>>, <<1100, 10000>>,
       <<1200, 0>> >>

StrainTable ==
    << <<20, Some(2500000)>>, <<100, Some(4000000)>>, <<200, Some(5500000)>>,
       <<300, Some(7000000)>>, <<400, Some(10000000)>>, <<500, Some(15000000)>>,
       <<600, Some(25000000)>>, <<700, Some(25000000)>>, <<800, Some(25000000)>>,
       <<900, Some(25000000)>>, <<1000, Some(25000000)>>, <<1100, Some(25000000)>>,
       <<1200, None>> >>

\* a slip in the table: the values at 0.6 and 0.8 have changed places
ReductionTableSwapped ==
    << <<0, 1000000>>, <<200, 1000000>>, <<400, 900000>>, <<600, 600000>>,
       <<800, 785000>>, <<1000, 540000>>, <<1200, 430000>>, <<1400, 360000>>,
       <<1600, 285000>>, <<1800, 240000>>, <<2000, 200000>>, <<2200, 170000>>,
       <<2400, 150000>>, <<2600, 125000>>, <<2800, 110000>>, <<3000, 100000>> >>

ReductionTable ==
    << <<0, 1000000>>, <<200, 1000000>>, <<400, 900000>>, <<600, 785000>>,
       <<800, 600000>>, <<1000, 540000>>, <<1200, 430000>>, <<1400, 360000>>,
       <<1600, 285000>>, <<1800, 240000>>, <<2000, 200000>>, <<2200, 170000>>,
       <<2400, 150000>>, <<2600, 125000>>, <<2800, 110000>>, <<3000, 100000>> >>

(***************************************************************************)
(* The interpolation loop shared (as three copies of the same text) by     *)
(* steel_working_condition_coeff, concrete_working_condition_coeff and     *)
(* get_reduction_coeff: the first segment [t0, t1] that holds x decides.   *)
(***************************************************************************)
\* a slip in the interpolation: the offset is measured from the far end of the
\* segment
RECURSIVE InterpolateFromFarEnd(_, _, _)
InterpolateFromFarEnd(table, x, i) ==
    IF i > Len(table)
    THEN table[Len(table)][2]
    ELSE LET t0 == table[i - 1][1]
             k0 == table[i - 1][2]
             t1 == table[i][1]
             k1 == table[i][2]
         IN  IF t0 <= x /\ x <= t1
             THEN k0 + ((k1 - k0) * (t1 - x)) \div (t1 - t0)
             ELSE InterpolateFromFarEnd(table, x, i + 1)

RECURSIVE InterpolateFrom(_, _, _)
InterpolateFrom(table, x, i) ==
    IF i > Len(table)
    THEN table[Len(table)][2]
    ELSE LET t0 == table[i - 1][1]
             k0 == table[i - 1][2]
             t1 == table[i][1]
             k1 == table[i][2]
         IN  IF t0 <= x /\ x <= t1
             THEN k0 + ((k1 - k0) * (x - t0)) \div (t1 - t0)
             ELSE InterpolateFrom(table, x, i + 1)

\* the bounds checks, then the loop
TableLookup(table, x) ==
    IF x <= table[1][1]
    THEN table[1][2]
    ELSE IF x >= table[Len(table)][1]
         THEN table[Len(table)][2]
         ELSE InterpolateFrom(table, x, 2)

steel_working_condition_coeff(temp) == TableLookup(SteelTable, temp)

\* a slip: the share of the strength that is lost, not the share that is kept
ConcreteShareLost(temp) == 1000000 - TableLookup(ConcreteTable, temp)

concrete_working_condition_coeff(temp) == TableLookup(ConcreteTable, temp)

get_reduction_coeff(s) == TableLookup(ReductionTable, s)

\* the loop of concrete_strain_by_temp: the first breakpoint t1 >= temp decides
RECURSIVE StrainFrom(_, _)
StrainFrom(temp, i) ==
    IF i > Len(StrainTable)
    THEN None
    ELSE LET t0 == StrainTable[i - 1][1]
             e0 == StrainTable[i - 1][2]
             t1 == StrainTable[i][1]
             e1 == StrainTable[i][2]
         IN  IF temp <= t1
             THEN IF e1 = None
                  THEN None
                  ELSE Some(Val(e0) + ((Val(e1) - Val(e0)) * (temp - t0)) \div (t1 - t0))
             ELSE StrainFrom(temp, i + 1)

\* a slip in concrete_strain_by_temp: the lower bound is not checked, and the
\* first segment is extended downwards
StrainWithoutLowerBound(temp) == StrainFrom(temp, 2)

concrete_strain_by_temp(temp) ==
    IF temp < 20 THEN Some(2500000) ELSE StrainFrom(temp, 2)

(***************************************************************************)
(* The table functions as operations: a behaviour is one call of one of    *)
(* them, on any input of the bounds.                                       *)
(***************************************************************************)
SteelCoeffCall ==
    \E t \in TempInputs :
        /\ lookup_fn = "none"
        /\ lookup_fn' = "steel_working_condition_coeff"
        /\ lookup_arg' = t
        /\ lookup_result' = Some(steel_working_condition_coeff(t))
        /\ UNCHANGED <<inputVars, resultVars, appVars>>

ConcreteCoeffCall ==
    \E t \in TempInputs :
        /\ lookup_fn = "none"
        /\ lookup_fn' = "concrete_working_condition_coeff"
        /\ lookup_arg' = t
        /\ lookup_result' = Some(concrete_working_condition_coeff(t))
        /\ UNCHANGED <<inputVars, resultVars, appVars>>

ConcreteStrainCall ==
    \E t \in TempInputs :
        /\ lookup_fn = "none"
        /\ lookup_fn' = "concrete_strain_by_temp"
        /\ lookup_arg' = t
        /\ lookup_result' = concrete_strain_by_temp(t)
        /\ UNCHANGED <<inputVars, resultVars, appVars>>

ReductionCoeffCall ==
    \E s \in SlendernessInputs :
        /\ lookup_fn = "none"
        /\ lookup_fn' = "get_reduction_coeff"
        /\ lookup_arg' = s
        /\ lookup_result' = Some(get_reduction_coeff(s))
        /\ UNCHANGED <<inputVars, resultVars, appVars>>

\* no table function, respectively no calculation function, is under study
NoLookup ==
    /\ lookup_fn = "none"
    /\ lookup_arg = 0
    /\ lookup_result = None

\* the additions to a running total: one per concrete ring, the steel wall's,
\* the reinforcement's
\* no validator has been called
NoValidation == [fn |-> "none", args |-> <<>>, result |-> <<TRUE, "">>]

\* the application has not run
NoApp ==
    /\ validation = NoValidation
    /\ datasets = <<>>
    /\ closest_data = None
    /\ normative_load = 0
    /\ rebar_strength_normative = 0
    /\ N_final_list = <<>>
    /\ fire_limit_time = None
    /\ fire_resistance_limit_n = None
    /\ pc = "none"

NoParts == [concrete |-> <<>>, steel |-> 0, rebar |-> 0]

NoResults ==
    /\ called = {}
    /\ thermal_record = None
    /\ rings = <<>>
    /\ N_total = 0
    /\ total_stiffness = 0
    /\ N_parts = NoParts
    /\ EI_parts = NoParts
    /\ raised = {}
    /\ evals = <<>>
    /\ NoApp

NoSeries ==
    /\ thermal_data = <<>>
    /\ fire_exposure_time_sec = 0

NoGeometry ==
    /\ diameter_mm = 0
    /\ thickness_mm = 0
    /\ num_rings = 0
    /\ ring_thicknesses = None
    /\ height_m = 0
    /\ effective_length_coeff = 0

NoMaterials ==
    /\ steel_strength_mpa = 0
    /\ concrete_strength_mpa = 0
    /\ steel_elastic_modulus_mpa = 0
    /\ use_reinforcement = FALSE
    /\ rebar_diameter_mm = 0
    /\ rebar_count = 0

InitTables ==
    /\ NoLookup
    /\ NoSeries
    /\ NoGeometry
    /\ NoMaterials
    /\ NoResults

NextTables ==
    \/ SteelCoeffCall
    \/ ConcreteCoeffCall
    \/ ConcreteStrainCall
    \/ ReductionCoeffCall

SpecTables == InitTables /\ [][NextTables]_vars

(***************************************************************************)
(* Thermal records.  A record is a dict with the key time_minutes and the  *)
(* channels temp_t1 .. temp_t9; a key that is missing, or holds no number, *)
(* reads as None.                                                          *)
(***************************************************************************)
ThermalRecord(tm, temps) ==
    [time_minutes |-> tm,
     temp_t1 |-> temps[1], temp_t2 |-> temps[2], temp_t3 |-> temps[3],
     temp_t4 |-> temps[4], temp_t5 |-> temps[5], temp_t6 |-> temps[6],
     temp_t7 |-> temps[7], temp_t8 |-> temps[8], temp_t9 |-> temps[9]]

\* isinstance(r.get('time_minutes'), (int, float))
HasTime(r) == r.time_minutes # None

TimeOf(r) == Val(r.time_minutes)

\* Python's max(records, key=time): the first record of the greatest time
RECURSIVE MaxFrom(_, _, _)
MaxFrom(records, i, best) ==
    IF i > Len(records)
    THEN best
    ELSE MaxFrom(records, i + 1,
                 IF TimeOf(records[i]) > TimeOf(best) THEN records[i] ELSE best)

\* a slip: among records of the same time the last one wins
RECURSIVE MaxFromLast(_, _, _)
MaxFromLast(records, i, best) ==
    IF i > Len(records)
    THEN best
    ELSE MaxFromLast(records, i + 1,
                     IF TimeOf(records[i]) >= TimeOf(best) THEN records[i] ELSE best)

MaxByTimeLast(records) == MaxFromLast(records, 2, records[1])

MaxByTime(records) == MaxFrom(records, 2, records[1])

\* Python's min(records, key=time): the first record of the least time
RECURSIVE MinFrom(_, _, _)
MinFrom(records, i, best) ==
    IF i > Len(records)
    THEN best
    ELSE MinFrom(records, i + 1,
                 IF TimeOf(records[i]) < TimeOf(best) THEN records[i] ELSE best)

MinByTime(records) == MinFrom(records, 2, records[1])

\* the records with a numeric time, and those of them not after t
TimedRecords(data) == SelectSeq(data, HasTime)

SuitableRecords(data, t) ==
    SelectSeq(data, LAMBDA r : HasTime(r) /\ TimeOf(r) <= t)

\* a slip: the series is taken to be sorted, and the last suitable record is
\* returned
ThermalRecordOfSortedSeries(data, t) ==
    IF data = <<>>
    THEN None
    ELSE IF SuitableRecords(data, t) # <<>>
         THEN Some(SuitableRecords(data, t)[Len(SuitableRecords(data, t))])
         ELSE IF TimedRecords(data) # <<>>
              THEN Some(MinByTime(TimedRecords(data)))
              ELSE None

\* a slip: the fallback returns the first record instead of the earliest
ThermalRecordFallbackFirst(data, t) ==
    IF data = <<>>
    THEN None
    ELSE IF SuitableRecords(data, t) # <<>>
         THEN Some(MaxByTime(SuitableRecords(data, t)))
         ELSE IF TimedRecords(data) # <<>>
              THEN Some(TimedRecords(data)[1])
              ELSE None

get_thermal_record_for_time(data, t) ==
    IF data = <<>>
    THEN None
    ELSE IF SuitableRecords(data, t) # <<>>
         THEN Some(MaxByTime(SuitableRecords(data, t)))
         ELSE IF TimedRecords(data) # <<>>
              THEN Some(MinByTime(TimedRecords(data)))
              ELSE None

\* get_thermal_record_for_time as an operation
GetThermalRecord ==
    /\ "get_thermal_record_for_time" \notin called
    /\ called' = called \cup {"get_thermal_record_for_time"}
    /\ thermal_record' = get_thermal_record_for_time(thermal_data, fire_exposure_time_sec)
    /\ UNCHANGED <<evals, appVars>>
    /\ UNCHANGED <<lookupVars, inputVars, rings, N_total, total_stiffness,
                   N_parts, EI_parts, raised>>

(***************************************************************************)
(* The inputs of the resolver: series of up to MaxRecords records, in any  *)
(* order, with and without a numeric time, two records of a time differing *)
(* in their channels.                                                      *)
(***************************************************************************)
MaxRecords == 3

AllAt(temp) == [k \in 1..9 |-> Some(temp)]

SeriesTimes == {0, 60, 3600}

ExposureTimes == {0 - 100, 0, 30, 60, 1800, 3600, 4000}

ResolverRecords ==
    {ThermalRecord(tm, temps) :
        tm \in {None} \cup {Some(t) : t \in SeriesTimes},
        temps \in {AllAt(20), AllAt(600)}}

SeriesOver(records, maxLen) == UNION {[1..n -> records] : n \in 0..maxLen}

InitResolver ==
    /\ NoLookup
    /\ thermal_data \in SeriesOver(ResolverRecords, MaxRecords)
    /\ fire_exposure_time_sec \in ExposureTimes
    /\ NoGeometry
    /\ NoMaterials
    /\ NoResults

NextResolver == GetThermalRecord

SpecResolver == InitResolver /\ [][NextResolver]_vars

(***************************************************************************)
(* discretize_concrete_core_into_rings.  Radii are in mm (the diameters    *)
(* drawn are even, so the radius is whole), a ring's area in units of      *)
(* pi mm^2.                                                                *)
(***************************************************************************)
\* a slip: with no record that has a time, the first record is taken
DiscretizerRecordOfAny(data, t) ==
    IF SuitableRecords(data, t) # <<>>
    THEN Some(MaxByTime(SuitableRecords(data, t)))
    ELSE IF TimedRecords(data) # <<>>
         THEN Some(MinByTime(TimedRecords(data)))
         ELSE IF data # <<>> THEN Some(data[1]) ELSE None

\* its own copy of the record selection (utils.py 95-112)
DiscretizerRecord(data, t) ==
    IF SuitableRecords(data, t) # <<>>
    THEN Some(MaxByTime(SuitableRecords(data, t)))
    ELSE IF TimedRecords(data) # <<>>
         THEN Some(MinByTime(TimedRecords(data)))
         ELSE None

\* a slip in the mapping: the channels are taken in a row, temp_t4 included
ChannelOfRingInARow(i) ==
    CASE i = 0 -> Some("temp_t2")
      [] i = 1 -> Some("temp_t3")
      [] i = 2 -> Some("temp_t4")
      [] i = 3 -> Some("temp_t5")
      [] i = 4 -> Some("temp_t6")
      [] i = 5 -> Some("temp_t7")
      [] i = 6 -> Some("temp_t8")
      [] OTHER -> None

\* temperature_mapping: ring index (from 0) -> channel; no channel from 7 on
ChannelOfRing(i) ==
    CASE i = 0 -> Some("temp_t2")
      [] i = 1 -> Some("temp_t3")
      [] i = 2 -> Some("temp_t5")
      [] i = 3 -> Some("temp_t6")
      [] i = 4 -> Some("temp_t7")
      [] i = 5 -> Some("temp_t8")
      [] i = 6 -> Some("temp_t9")
      [] OTHER -> None

\* a slip: a ring whose channel is missing is taken to be at 20 degrees
RingTemperatureOrAmbient(record, i) ==
    IF record # None /\ ChannelOfRing(i) # None
    THEN IF Val(record)[Val(ChannelOfRing(i))] # None
         THEN Val(record)[Val(ChannelOfRing(i))]
         ELSE Some(20)
    ELSE None

\* the temperature of ring i under the selected record
RingTemperature(record, i) ==
    IF record # None /\ ChannelOfRing(i) # None
    THEN Val(record)[Val(ChannelOfRing(i))]
    ELSE None

Max(a, b) == IF a >= b THEN a ELSE b

\* a slip: a ring without a thickness gets none
RingThicknessNoFill(plan, i, current_outer_radius) ==
    IF i < Len(plan) /\ plan[i + 1] # None
    THEN Val(plan[i + 1])
    ELSE 0

\* the thickness of ring i (from 0) under the plan: the entry, or all that is left
RingThickness(plan, i, current_outer_radius) ==
    IF i < Len(plan) /\ plan[i + 1] # None
    THEN Val(plan[i + 1])
    ELSE current_outer_radius

\* a slip: the inner radius is not kept from going below 0
RECURSIVE RingsFromUnclamped(_, _, _, _, _)
RingsFromUnclamped(i, n, current_outer_radius, plan, record) ==
    IF i >= n
    THEN <<>>
    ELSE LET inner_radius ==
                 current_outer_radius - RingThickness(plan, i, current_outer_radius)
             area ==
                 IF current_outer_radius > inner_radius
                 THEN current_outer_radius * current_outer_radius - inner_radius * inner_radius
                 ELSE 0
         IN  << [outer_radius_mm |-> current_outer_radius,
                 inner_radius_mm |-> inner_radius,
                 area_mm2 |-> area,
                 temperature_celsius |-> RingTemperature(record, i)] >>
             \o RingsFromUnclamped(i + 1, n, inner_radius, plan, record)

\* the loop over the rings i .. n-1, from the outside in
RECURSIVE RingsFrom(_, _, _, _, _)
RingsFrom(i, n, current_outer_radius, plan, record) ==
    IF i >= n
    THEN <<>>
    ELSE LET inner_radius ==
                 Max(0, current_outer_radius - RingThickness(plan, i, current_outer_radius))
             area ==
                 IF current_outer_radius > inner_radius
                 THEN current_outer_radius * current_outer_radius - inner_radius * inner_radius
                 ELSE 0
         IN  << [outer_radius_mm |-> current_outer_radius,
                 inner_radius_mm |-> inner_radius,
                 area_mm2 |-> area,
                 temperature_celsius |-> RingTemperature(record, i)] >>
             \o RingsFrom(i + 1, n, inner_radius, plan, record)

CoreRadius(diameter, thickness) == diameter \div 2 - thickness

\* ring_thicknesses is None: num_rings equal shares of the core radius
UniformPlan(diameter, thickness, n) ==
    [k \in 1..n |-> Some(CoreRadius(diameter, thickness) \div n)]

\* total_thickness / num_rings raises ZeroDivisionError for num_rings = 0
DiscretizeRaises(data, n, plan) == data # <<>> /\ plan = None /\ n = 0

discretize_concrete_core_into_rings(diameter, thickness, data, t, n, plan) ==
    IF data = <<>>
    THEN <<>>
    ELSE RingsFrom(0, n, CoreRadius(diameter, thickness),
                   IF plan = None THEN UniformPlan(diameter, thickness, n) ELSE Val(plan),
                   DiscretizerRecord(data, t))

\* discretize_concrete_core_into_rings as an operation
Discretize ==
    /\ "discretize_concrete_core_into_rings" \notin (called \cup raised)
    /\ IF DiscretizeRaises(thermal_data, num_rings, ring_thicknesses)
       THEN /\ raised' = raised \cup {"discretize_concrete_core_into_rings"}
            /\ UNCHANGED <<called, rings>>
       ELSE /\ called' = called \cup {"discretize_concrete_core_into_rings"}
            /\ rings' = discretize_concrete_core_into_rings(
                            diameter_mm, thickness_mm, thermal_data,
                            fire_exposure_time_sec, num_rings, ring_thicknesses)
            /\ UNCHANGED raised
    /\ UNCHANGED <<evals, appVars>>
    /\ UNCHANGED <<lookupVars, inputVars, thermal_record, N_total, total_stiffness,
                   N_parts, EI_parts>>

(***************************************************************************)
(* The inputs of the discretizer: plans of up to MaxRings entries and the  *)
(* reference plan of app/config.py, ring counts that agree with the plan   *)
(* and that do not, cores of radius 168, 40, 0 and -2 mm, series that are  *)
(* empty, without times, and of records whose channels all differ.        *)
(***************************************************************************)
MaxRings == 3

NUM_CONCRETE_RINGS == 7

RING_THICKNESSES_MM ==
    <<Some(10), Some(20), Some(20), Some(20), Some(20), Some(20), None>>

PlanEntries == {None, Some(0), Some(10), Some(20)}

\* ring_thicknesses: None (no plan given), or <<plan>>
Plans ==
    {None, Some(RING_THICKNESSES_MM)}
        \cup {Some(plan) : plan \in SeriesOver(PlanEntries, MaxRings)}

RingCounts == (0..MaxRings) \cup {NUM_CONCRETE_RINGS}

Geometries == {<<356, 10>>, <<100, 10>>, <<20, 10>>, <<20, 12>>}

\* channel k at 100 k degrees, and at 100 k + 50
Rising == [k \in 1..9 |-> Some(100 * k)]

RisingMore == [k \in 1..9 |-> Some(100 * k + 50)]

\* channels t2 and t7 missing
Gaps == [k \in 1..9 |-> IF k \in {2, 7} THEN None ELSE Some(20 * k)]

RingSeries ==
    { <<>>,
      <<ThermalRecord(None, Rising)>>,
      <<ThermalRecord(Some(0), Rising)>>,
      <<ThermalRecord(Some(60), RisingMore), ThermalRecord(Some(0), Rising)>>,
      <<ThermalRecord(Some(0), Gaps), ThermalRecord(Some(3600), Rising)>>,
      <<ThermalRecord(Some(60), Rising), ThermalRecord(Some(60), Gaps),
        ThermalRecord(None, RisingMore)>> }

RingExposureTimes == {0 - 100, 30, 60}

\* the shares of a uniform split are whole
UniformSplitExact(diameter, thickness, n, plan) ==
    (plan = None /\ n > 0) => CoreRadius(diameter, thickness) % n = 0

InitRings ==
    /\ NoLookup
    /\ thermal_data \in RingSeries
    /\ fire_exposure_time_sec \in RingExposureTimes
    /\ \E g \in Geometries :
           /\ diameter_mm = g[1]
           /\ thickness_mm = g[2]
    /\ num_rings \in RingCounts
    /\ ring_thicknesses \in Plans
    /\ UniformSplitExact(diameter_mm, thickness_mm, num_rings, ring_thicknesses)
    /\ height_m = 0
    /\ effective_length_coeff = 0
    /\ NoMaterials
    /\ NoResults

NextRings ==
    \/ GetThermalRecord
    \/ Discretize

SpecRings == InitRings /\ [][NextRings]_vars

(***************************************************************************)
(* calculate_capacity_for_time and calculate_stiffness_for_time.           *)
(***************************************************************************)
CoeffGrain == 5000

StrainGrain == 500000

REBAR_COVER_MM == 35

\* a coefficient, and a strain, in the units of the sums
InGrains(coeff) == coeff \div CoeffGrain

StrainInGrains(strain) == strain \div StrainGrain

RECURSIVE Sum(_)
Sum(terms) == IF terms = <<>> THEN 0 ELSE Head(terms) + Sum(Tail(terms))

Pow4(x) == x * x * x * x

\* a slip: the diameters are squared, not the radii
SteelRingAreaOfDiameters(diameter, thickness) ==
    LET R_out == diameter
        R_in == R_out - 2 * thickness
    IN  R_out * R_out - R_in * R_in

\* steel_ring_area, in units of pi mm^2
steel_ring_area(diameter, thickness) ==
    LET R_out == diameter \div 2
        R_in == R_out - thickness
    IN  R_out * R_out - R_in * R_in

\* N_ring of one concrete ring (0 when the ring is skipped)
RingCapacity(ring, fc) ==
    IF ring.temperature_celsius # None
    THEN ring.area_mm2
             * InGrains(concrete_working_condition_coeff(Val(ring.temperature_celsius)))
             * fc
    ELSE 0

\* E_c_fire = f_cd_fire / (strain * 1e-3), in MPa
ConcreteModulus(temp, fc) ==
    (10 * InGrains(concrete_working_condition_coeff(temp)) * fc)
        \div StrainInGrains(Val(concrete_strain_by_temp(temp)))

\* what one concrete ring adds to total_stiffness (0 when it is skipped)
RingStiffness(ring, fc) ==
    LET I_ring == Pow4(ring.outer_radius_mm) - Pow4(ring.inner_radius_mm)
        temp == ring.temperature_celsius
    IN  IF temp # None
        THEN IF /\ concrete_strain_by_temp(Val(temp)) # None
                /\ Val(concrete_strain_by_temp(Val(temp))) # 0
                /\ Val(concrete_strain_by_temp(Val(temp))) > 0
             THEN I_ring * ConcreteModulus(Val(temp), fc)
             ELSE 0
        ELSE 0

\* N_steel_ring
SteelCapacity(record, diameter, thickness, fy) ==
    IF record # None /\ Val(record).temp_t1 # None
    THEN steel_ring_area(diameter, thickness)
             * InGrains(steel_working_condition_coeff(Val(Val(record).temp_t1)))
             * fy
    ELSE 0

\* E_steel_fire = steel_elastic_modulus_mpa * gamma_st, in MPa
SteelModulus(temp, E) == (E * InGrains(steel_working_condition_coeff(temp))) \div 200

\* what the steel wall adds to total_stiffness
SteelStiffness(record, diameter, thickness, E) ==
    IF record # None /\ Val(record).temp_t1 # None
    THEN LET R_out_steel == diameter \div 2
             R_in_steel == R_out_steel - thickness
         IN  (Pow4(R_out_steel) - Pow4(R_in_steel))
                 * SteelModulus(Val(Val(record).temp_t1), E)
    ELSE 0

\* a slip: the bars are counted whether reinforcement is used or not
RebarCapacityAlways(record, use, d, count, fy) ==
    IF record # None /\ Val(record).temp_t4 # None
    THEN ((d * d) \div 4) * count
             * InGrains(steel_working_condition_coeff(Val(Val(record).temp_t4)))
             * fy
    ELSE 0

\* N_rebar; the bars' area pi d^2 / 4 * rebar_count in units of pi mm^2
RebarCapacity(record, use, d, count, fy) ==
    IF use /\ record # None /\ Val(record).temp_t4 # None
    THEN ((d * d) \div 4) * count
             * InGrains(steel_working_condition_coeff(Val(Val(record).temp_t4)))
             * fy
    ELSE 0

\* a slip: the bars' distance from the axis forgets the cover
RebarStiffnessWithoutCover(record, use, diameter, thickness, d, E) ==
    IF use /\ record # None /\ Val(record).temp_t4 # None
    THEN LET rebar_distance_mm == diameter \div 2 - thickness - d \div 2
             I_self_bar == Pow4(d) \div 16
             rebar_area_one == d * d
             I_rebar == 8 * I_self_bar + 4 * rebar_area_one * rebar_distance_mm * rebar_distance_mm
         IN  I_rebar * SteelModulus(Val(Val(record).temp_t4), E)
    ELSE 0

\* what the reinforcement adds to total_stiffness:
\* I_rebar = 8 I_self_bar + 4 rebar_area_one rebar_distance_mm^2, with
\* I_self_bar = pi d^4 / 64 and rebar_area_one = pi d^2 / 4
RebarStiffness(record, use, diameter, thickness, d, E) ==
    IF use /\ record # None /\ Val(record).temp_t4 # None
    THEN LET rebar_distance_mm == diameter \div 2 - thickness - REBAR_COVER_MM - d \div 2
             I_self_bar == Pow4(d) \div 16
             rebar_area_one == d * d
             I_rebar == 8 * I_self_bar + 4 * rebar_area_one * rebar_distance_mm * rebar_distance_mm
         IN  I_rebar * SteelModulus(Val(Val(record).temp_t4), E)
    ELSE 0

\* the additions of calculate_capacity_for_time to N_total
CapacityParts(diameter, thickness, data, t, fy, fc, use, d, count, n, plan) ==
    LET record == get_thermal_record_for_time(data, t)
        concrete_rings == discretize_concrete_core_into_rings(diameter, thickness, data, t, n, plan)
    IN  [concrete |-> [k \in 1..Len(concrete_rings) |-> RingCapacity(concrete_rings[k], fc)],
         steel |-> SteelCapacity(record, diameter, thickness, fy),
         rebar |-> RebarCapacity(record, use, d, count, fy)]

\* a slip: the reinforcement's stiffness is taken per bar, of 8
StiffnessPartsPerBar(diameter, thickness, data, t, fc, E, use, d, count, n, plan) ==
    LET record == get_thermal_record_for_time(data, t)
        concrete_rings == discretize_concrete_core_into_rings(diameter, thickness, data, t, n, plan)
    IN  [concrete |-> [k \in 1..Len(concrete_rings) |-> RingStiffness(concrete_rings[k], fc)],
         steel |-> SteelStiffness(record, diameter, thickness, E),
         rebar |-> (RebarStiffness(record, use, diameter, thickness, d, E) * count) \div 8]

\* the additions of calculate_stiffness_for_time to total_stiffness
StiffnessParts(diameter, thickness, data, t, fc, E, use, d, count, n, plan) ==
    LET record == get_thermal_record_for_time(data, t)
        concrete_rings == discretize_concrete_core_into_rings(diameter, thickness, data, t, n, plan)
    IN  [concrete |-> [k \in 1..Len(concrete_rings) |-> RingStiffness(concrete_rings[k], fc)],
         steel |-> SteelStiffness(record, diameter, thickness, E),
         rebar |-> RebarStiffness(record, use, diameter, thickness, d, E)]

Total(parts) == Sum(parts.concrete) + parts.steel + parts.rebar

calculate_capacity_for_time(diameter, thickness, data, t, fy, fc, use, d, count, n, plan) ==
    Total(CapacityParts(diameter, thickness, data, t, fy, fc, use, d, count, n, plan))

calculate_stiffness_for_time(diameter, thickness, data, t, fc, E, use, d, count, n, plan) ==
    Total(StiffnessParts(diameter, thickness, data, t, fc, E, use, d, count, n, plan))

\* calculate_capacity_for_time as an operation
CalculateCapacity ==
    /\ "calculate_capacity_for_time" \notin (called \cup raised)
    /\ IF DiscretizeRaises(thermal_data, num_rings, ring_thicknesses)
       THEN /\ raised' = raised \cup {"calculate_capacity_for_time"}
            /\ UNCHANGED <<called, N_total, N_parts>>
       ELSE /\ called' = called \cup {"calculate_capacity_for_time"}
            /\ N_parts' = CapacityParts(
                    diameter_mm, thickness_mm, thermal_data, fire_exposure_time_sec,
                    steel_strength_mpa, concrete_strength_mpa, use_reinforcement,
                    rebar_diameter_mm, rebar_count, num_rings, ring_thicknesses)
            /\ N_total' = calculate_capacity_for_time(
                    diameter_mm, thickness_mm, thermal_data, fire_exposure_time_sec,
                    steel_strength_mpa, concrete_strength_mpa, use_reinforcement,
                    rebar_diameter_mm, rebar_count, num_rings, ring_thicknesses)
            /\ UNCHANGED raised
    /\ UNCHANGED <<evals, appVars>>
    /\ UNCHANGED <<lookupVars, inputVars, thermal_record, rings, total_stiffness, EI_parts>>

\* calculate_stiffness_for_time as an operation
CalculateStiffness ==
    /\ "calculate_stiffness_for_time" \notin (called \cup raised)
    /\ IF DiscretizeRaises(thermal_data, num_rings, ring_thicknesses)
       THEN /\ raised' = raised \cup {"calculate_stiffness_for_time"}
            /\ UNCHANGED <<called, total_stiffness, EI_parts>>
       ELSE /\ called' = called \cup {"calculate_stiffness_for_time"}
            /\ EI_parts' = StiffnessParts(
                    diameter_mm, thickness_mm, thermal_data, fire_exposure_time_sec,
                    concrete_strength_mpa, steel_elastic_modulus_mpa, use_reinforcement,
                    rebar_diameter_mm, rebar_count, num_rings, ring_thicknesses)
            /\ total_stiffness' = calculate_stiffness_for_time(
                    diameter_mm, thickness_mm, thermal_data, fire_exposure_time_sec,
                    concrete_strength_mpa, steel_elastic_modulus_mpa, use_reinforcement,
                    rebar_diameter_mm, rebar_count, num_rings, ring_thicknesses)
            /\ UNCHANGED raised
    /\ UNCHANGED <<evals, appVars>>
    /\ UNCHANGED <<lookupVars, inputVars, thermal_record, rings, N_total, N_parts>>

(***************************************************************************)
(* The inputs of the sums: small sections (tube 20 x 2 and 24 x 2 mm, and  *)
(* a wall of 12 mm on a diameter of 20 that leaves a core radius of -2),   *)
(* plans of up to MaxRings rings, records that are cold, hot (with rings   *)
(* at 1150 and 1200 degrees), and with channels missing.                   *)
(***************************************************************************)
Cold == AllAt(20)

\* t1 .. t9; the outer rings are hotter
Hot == <<Some(600), Some(1200), Some(1150), Some(400), Some(1100), Some(600),
         Some(100), Some(20), Some(20)>>

\* no steel channel, no reinforcement channel, no channel of the second ring
Missing == <<None, Some(600), None, None, Some(100), Some(20), Some(20), Some(20), Some(20)>>

SumSeries ==
    { <<>>,
      <<ThermalRecord(None, Cold)>>,
      <<ThermalRecord(Some(0), Cold)>>,
      <<ThermalRecord(Some(60), Hot), ThermalRecord(Some(0), Cold)>>,
      <<ThermalRecord(Some(0), Cold), ThermalRecord(Some(60), Missing)>> }

SumExposureTimes == {0, 60}

SumGeometries == {<<20, 2>>, <<24, 2>>, <<20, 12>>}

\* no plan, plans that end with the sentinel, that stop short of the axis
\* (the cores are 8 and 10 mm), and that reach beyond it
SumPlans ==
    { None,
      Some(<<>>),
      Some(<<None>>),
      Some(<<Some(2), None>>),
      Some(<<Some(2), Some(4), None>>),
      Some(<<Some(4), Some(4)>>),
      Some(<<Some(2), Some(2), Some(2)>>),
      Some(<<Some(4), Some(4), Some(4)>>) }

Init ==
    /\ NoLookup
    /\ thermal_data \in SumSeries
    /\ fire_exposure_time_sec \in SumExposureTimes
    /\ \E g \in SumGeometries :
           /\ diameter_mm = g[1]
           /\ thickness_mm = g[2]
    /\ num_rings \in 0..MaxRings
    /\ ring_thicknesses \in SumPlans
    /\ UniformSplitExact(diameter_mm, thickness_mm, num_rings, ring_thicknesses)
    /\ height_m = 0
    /\ effective_length_coeff = 0
    /\ steel_strength_mpa = 355
    /\ concrete_strength_mpa = 40
    /\ steel_elastic_modulus_mpa = 2000
    /\ use_reinforcement \in BOOLEAN
    /\ rebar_diameter_mm \in {2, 4}
    /\ rebar_count \in {0, 8}
    /\ NoResults

Next ==
    \/ GetThermalRecord
    \/ Discretize
    \/ CalculateCapacity
    \/ CalculateStiffness

Spec == Init /\ [][Next]_vars

(***************************************************************************)
(* calculate_final_capacity.  Its lengths: height_m is in units of         *)
(* pi / (100 sqrt 2) m (about 22.2 mm), effective_length_coeff is whole;   *)
(* in these units pi^2 total_stiffness / (height_m coeff)^2 is, in the     *)
(* unit of N_total, total_stiffness / (height_m coeff)^2.  Three values    *)
(* are rounded down to their unit: N_cr (unit of N_total), the slenderness *)
(* (thousandths) and N_final (unit of N_total).                            *)
(***************************************************************************)
\* phi of a slenderness in thousandths is a whole number of PhiGrain millionths
PhiGrain == 25

\* <<floor(n 10^digits / d), the remainder>>, digit by digit
RECURSIVE LongDivision(_, _, _)
LongDivision(n, d, digits) ==
    IF digits = 0
    THEN <<n \div d, n % d>>
    ELSE LET prev == LongDivision(n, d, digits - 1)
         IN  <<10 * prev[1] + (10 * prev[2]) \div d, (10 * prev[2]) % d>>

\* floor(sqrt(n)), given lo^2 <= n < (hi + 1)^2
RECURSIVE SqrtBetween(_, _, _)
SqrtBetween(n, lo, hi) ==
    IF lo = hi
    THEN lo
    ELSE LET mid == (lo + hi + 1) \div 2
         IN  IF mid * mid <= n
             THEN SqrtBetween(n, mid, hi)
             ELSE SqrtBetween(n, lo, mid - 1)

\* math.sqrt(N_total / N_cr), in thousandths
SqrtOfRatio(n, d) == SqrtBetween(LongDivision(n, d, 6)[1], 0, 46340)

\* N_total * reduction_coeff, the coefficient in millionths
TimesCoeff(n, coeff) ==
    LET c == coeff \div PhiGrain
        whole == 1000000 \div PhiGrain
    IN  (n \div whole) * c + ((n % whole) * c) \div whole

\* a slip: the coefficient is looked up for the square of the slenderness
ReduceBySquare(stiffness, capacity, height, coeff) ==
    LET N_cr == IF stiffness > 0 /\ height > 0 /\ coeff > 0
                THEN stiffness \div ((height * coeff) * (height * coeff))
                ELSE 0
        slenderness == IF N_cr > 0 THEN SqrtOfRatio(capacity, N_cr) ELSE 0
        reduction_coeff == get_reduction_coeff((slenderness * slenderness) \div 1000)
    IN  [N_final |-> TimesCoeff(capacity, reduction_coeff),
         N_total |-> capacity,
         N_cr |-> N_cr,
         slenderness |-> slenderness,
         reduction_coeff |-> reduction_coeff]

\* a slip: without a critical load the capacity is lost
ReduceToNothing(stiffness, capacity, height, coeff) ==
    LET N_cr == IF stiffness > 0 /\ height > 0 /\ coeff > 0
                THEN stiffness \div ((height * coeff) * (height * coeff))
                ELSE 0
        slenderness == IF N_cr > 0 THEN SqrtOfRatio(capacity, N_cr) ELSE 0
        reduction_coeff == IF N_cr > 0 THEN get_reduction_coeff(slenderness) ELSE 0
    IN  [N_final |-> TimesCoeff(capacity, reduction_coeff),
         N_total |-> capacity,
         N_cr |-> N_cr,
         slenderness |-> slenderness,
         reduction_coeff |-> reduction_coeff]

\* the critical load, the slenderness, the coefficient and N_final
\* (calculations.py 284-302)
Reduce(stiffness, capacity, height, coeff) ==
    LET N_cr == IF stiffness > 0 /\ height > 0 /\ coeff > 0
                THEN stiffness \div ((height * coeff) * (height * coeff))
                ELSE 0
        slenderness == IF N_cr > 0 THEN SqrtOfRatio(capacity, N_cr) ELSE 0
        reduction_coeff == get_reduction_coeff(slenderness)
    IN  [N_final |-> TimesCoeff(capacity, reduction_coeff),
         N_total |-> capacity,
         N_cr |-> N_cr,
         slenderness |-> slenderness,
         reduction_coeff |-> reduction_coeff]

calculate_final_capacity(diameter, thickness, height, coeff, data, t, fy, E, fc, use, d, count, n, plan) ==
    Reduce(calculate_stiffness_for_time(diameter, thickness, data, t, fc, E, use, d, count, n, plan),
           calculate_capacity_for_time(diameter, thickness, data, t, fy, fc, use, d, count, n, plan),
           height, coeff)

\* a slip: the discretizer uses the caller's list up
PlanConsumedByDiscretize(plan) == IF plan = None THEN None ELSE Some(<<>>)

\* the caller's ring_thicknesses after the discretizer has run: the uniform
\* split is bound to the local name, the list itself is only read
PlanAfterDiscretize(plan) == plan

(***************************************************************************)
(* Evaluations of calculate_final_capacity over the same arguments, each   *)
(* with its own exposure time, run side by side (the application computes  *)
(* the capacity at many exposure times over one thermal series).  An       *)
(* evaluation takes three steps: the stiffness, the capacity, the          *)
(* reduction; the steps of different evaluations interleave freely.        *)
(***************************************************************************)
Evals == {1, 2}

NoResult == [N_final |-> 0, N_total |-> 0, N_cr |-> 0, slenderness |-> 0, reduction_coeff |-> 0]

\* an evaluation that has been called with exposure time t
Called(t) ==
    [pc |-> "stiffness",
     fire_exposure_time_sec |-> t,
     total_stiffness |-> 0,
     EI_parts |-> NoParts,
     N_total |-> 0,
     N_parts |-> NoParts,
     result |-> NoResult]

\* total_stiffness = calculate_stiffness_for_time(...)
EvalStiffness(p) ==
    /\ evals[p].pc = "stiffness"
    /\ IF DiscretizeRaises(thermal_data, num_rings, ring_thicknesses)
       THEN evals' = [evals EXCEPT ![p].pc = "raised"]
       ELSE evals' = [evals EXCEPT
                ![p].pc = "capacity",
                ![p].EI_parts = StiffnessParts(
                    diameter_mm, thickness_mm, thermal_data, evals[p].fire_exposure_time_sec,
                    concrete_strength_mpa, steel_elastic_modulus_mpa, use_reinforcement,
                    rebar_diameter_mm, rebar_count, num_rings, ring_thicknesses),
                ![p].total_stiffness = calculate_stiffness_for_time(
                    diameter_mm, thickness_mm, thermal_data, evals[p].fire_exposure_time_sec,
                    concrete_strength_mpa, steel_elastic_modulus_mpa, use_reinforcement,
                    rebar_diameter_mm, rebar_count, num_rings, ring_thicknesses)]
    /\ ring_thicknesses' = PlanAfterDiscretize(ring_thicknesses)
    /\ UNCHANGED <<lookupVars, seriesVars, diameter_mm, thickness_mm, num_rings, height_m,
                   effective_length_coeff, materialVars, called, thermal_record, rings,
                   N_total, total_stiffness, N_parts, EI_parts, raised>>
    /\ UNCHANGED appVars

\* N_total = calculate_capacity_for_time(...)
EvalCapacity(p) ==
    /\ evals[p].pc = "capacity"
    /\ evals' = [evals EXCEPT
           ![p].pc = "reduce",
           ![p].N_parts = CapacityParts(
               diameter_mm, thickness_mm, thermal_data, evals[p].fire_exposure_time_sec,
               steel_strength_mpa, concrete_strength_mpa, use_reinforcement,
               rebar_diameter_mm, rebar_count, num_rings, ring_thicknesses),
           ![p].N_total = calculate_capacity_for_time(
               diameter_mm, thickness_mm, thermal_data, evals[p].fire_exposure_time_sec,
               steel_strength_mpa, concrete_strength_mpa, use_reinforcement,
               rebar_diameter_mm, rebar_count, num_rings, ring_thicknesses)]
    /\ ring_thicknesses' = PlanAfterDiscretize(ring_thicknesses)
    /\ UNCHANGED <<lookupVars, seriesVars, diameter_mm, thickness_mm, num_rings, height_m,
                   effective_length_coeff, materialVars, called, thermal_record, rings,
                   N_total, total_stiffness, N_parts, EI_parts, raised>>
    /\ UNCHANGED appVars

\* N_cr, slenderness, reduction_coeff, N_final; the tuple is returned
EvalReduce(p) ==
    /\ evals[p].pc = "reduce"
    /\ evals' = [evals EXCEPT
           ![p].pc = "returned",
           ![p].result = Reduce(evals[p].total_stiffness, evals[p].N_total,
                                height_m, effective_length_coeff)]
    /\ UNCHANGED <<lookupVars, inputVars, called, thermal_record, rings,
                   N_total, total_stiffness, N_parts, EI_parts, raised>>
    /\ UNCHANGED appVars

(***************************************************************************)
(* The inputs of the evaluations: the sections 20 x 2 and 32 x 2 mm (cores *)
(* of 8 and 14 mm), the reference plan among the plans, effective lengths  *)
(* that give slendernesses from 0.5 to beyond 3 and lengths that are not   *)
(* positive, series that are empty, cold, heated in the core only, hot,    *)
(* and with channels missing.                                              *)
(***************************************************************************)
\* the third ring (temp_t5) alone is heated
HotCore == [k \in 1..9 |-> IF k = 5 THEN Some(1000) ELSE Some(20)]

Warm == AllAt(100)

EvalSeries ==
    { <<>>,
      <<ThermalRecord(None, Cold)>>,
      <<ThermalRecord(Some(0), Cold), ThermalRecord(Some(60), HotCore)>>,
      <<ThermalRecord(Some(0), Cold), ThermalRecord(Some(60), Warm)>>,
      <<ThermalRecord(Some(60), Hot), ThermalRecord(Some(0), Cold)>>,
      <<ThermalRecord(Some(0), Cold), ThermalRecord(Some(60), Missing)>> }

EvalTimes == {0, 60}

\* <<diameter_mm, thickness_mm, num_rings, ring_thicknesses>>
EvalSections ==
    { <<20, 2, 3, Some(<<Some(2), Some(4), None>>)>>,
      <<20, 2, 2, None>>,
      <<20, 2, 0, None>>,
      <<24, 2, 2, Some(<<Some(4), Some(4)>>)>>,
      <<32, 2, NUM_CONCRETE_RINGS, Some(RING_THICKNESSES_MM)>> }

\* <<height_m, effective_length_coeff>>
EvalLengths ==
    { <<0, 1>>, <<5, 0>>, <<0 - 5, 0 - 1>>, <<5, 1>>, <<5, 2>>, <<25, 1>>, <<25, 2>> }

InitEval ==
    /\ NoLookup
    /\ thermal_data \in EvalSeries
    /\ fire_exposure_time_sec = 0
    /\ \E g \in EvalSections :
           /\ diameter_mm = g[1]
           /\ thickness_mm = g[2]
           /\ num_rings = g[3]
           /\ ring_thicknesses = g[4]
    /\ \E l \in EvalLengths :
           /\ height_m = l[1]
           /\ effective_length_coeff = l[2]
    /\ steel_strength_mpa = 40
    /\ concrete_strength_mpa = 40
    /\ steel_elastic_modulus_mpa = 2000
    /\ use_reinforcement \in BOOLEAN
    /\ rebar_diameter_mm = 2
    /\ rebar_count = 8
    /\ called = {}
    /\ thermal_record = None
    /\ rings = <<>>
    /\ N_total = 0
    /\ total_stiffness = 0
    /\ N_parts = NoParts
    /\ EI_parts = NoParts
    /\ raised = {}
    /\ evals \in [Evals -> {Called(t) : t \in EvalTimes}]
    /\ NoApp

NextEval ==
    \E p \in Evals :
        \/ EvalStiffness(p)
        \/ EvalCapacity(p)
        \/ EvalReduce(p)

SpecEval == InitEval /\ [][NextEval]_vars

(***************************************************************************)
(* The units are fine enough: no interpolation of a table rounds.          *)
(***************************************************************************)
SegmentsExact(table, x) ==
    \A i \in 2..Len(table) :
        (table[i - 1][1] <= x /\ x <= table[i][1])
            => ((table[i][2] - table[i - 1][2]) * (x - table[i - 1][1]))
                   % (table[i][1] - table[i - 1][1]) = 0

ExactTables ==
    /\ lookup_fn = "steel_working_condition_coeff" => SegmentsExact(SteelTable, lookup_arg)
    /\ lookup_fn = "concrete_working_condition_coeff" => SegmentsExact(ConcreteTable, lookup_arg)
    /\ lookup_fn = "get_reduction_coeff" => SegmentsExact(ReductionTable, lookup_arg)
    /\ lookup_fn = "concrete_strain_by_temp" =>
           \A i \in 2..(Len(StrainTable) - 1) :
               (StrainTable[i - 1][1] <= lookup_arg /\ lookup_arg <= StrainTable[i][1])
                   => ((Val(StrainTable[i][2]) - Val(StrainTable[i - 1][2]))
                          * (lookup_arg - StrainTable[i - 1][1]))
                          % (StrainTable[i][1] - StrainTable[i - 1][1]) = 0

\* no division of the sums rounds on the inputs drawn
ExactSums ==
    /\ diameter_mm % 2 = 0
    /\ rebar_diameter_mm % 2 = 0
    /\ \A i \in 1..Len(thermal_data) :
           /\ \A ch \in {"temp_t1", "temp_t4"} :
                  thermal_data[i][ch] # None
                      => LET g == steel_working_condition_coeff(Val(thermal_data[i][ch]))
                         IN  /\ g % CoeffGrain = 0
                             /\ (steel_elastic_modulus_mpa * InGrains(g)) % 200 = 0
           /\ \A k \in 1..7 :
                  LET temp == thermal_data[i][Val(ChannelOfRing(k - 1))]
                  IN  temp # None
                          => /\ concrete_working_condition_coeff(Val(temp)) % CoeffGrain = 0
                             /\ concrete_strain_by_temp(Val(temp)) # None
                                    => /\ Val(concrete_strain_by_temp(Val(temp))) % StrainGrain = 0
                                       /\ (10 * InGrains(concrete_working_condition_coeff(Val(temp)))
                                              * concrete_strength_mpa)
                                              % StrainInGrains(Val(concrete_strain_by_temp(Val(temp))))
                                          = 0

(***************************************************************************)
(* C1.  Hold last known value: for every series, in any record order, and  *)
(* every exposure time t such that some record has a numeric time <= t,    *)
(* get_thermal_record_for_time returns a record of the series whose time   *)
(* is <= t, and no record of the series has a time that is <= t and        *)
(* greater than the returned one's; a record of a time > t is not returned.*)
(***************************************************************************)
\* the positions of the records with a numeric time, and of those not after t
Timed(data) == {i \in DOMAIN data : HasTime(data[i])}

Applicable(data, t) == {i \in Timed(data) : TimeOf(data[i]) <= t}

Resolved == "get_thermal_record_for_time" \in called

C1_HoldLastKnown ==
    (Resolved /\ Applicable(thermal_data, fire_exposure_time_sec) # {})
        => /\ thermal_record # None
           /\ \E i \in Applicable(thermal_data, fire_exposure_time_sec) :
                  thermal_data[i] = Val(thermal_record)
           /\ HasTime(Val(thermal_record))
           /\ TimeOf(Val(thermal_record)) <= fire_exposure_time_sec
           /\ \A i \in Applicable(thermal_data, fire_exposure_time_sec) :
                  TimeOf(thermal_data[i]) <= TimeOf(Val(thermal_record))

\* an unsorted series with a record after t: the latest record not after t,
\* which is not the last such record of the series, was returned
C1_Witness ==
    /\ Resolved
    /\ Len(thermal_data) = 3
    /\ thermal_data[1].time_minutes = Some(3600)
    /\ thermal_data[2].time_minutes = Some(60)
    /\ thermal_data[3].time_minutes = Some(0)
    /\ fire_exposure_time_sec = 1800
    /\ thermal_record = Some(thermal_data[2])

(***************************************************************************)
(* C2.  Fallback: when the series is not empty and no record has a time    *)
(* <= the exposure time, the result is a record of the series whose time   *)
(* is the minimum over the whole series; when the series is empty the      *)
(* result is None.  (Records without a numeric time carry no time offset:  *)
(* the minimum is over the records that have one.)                         *)
(***************************************************************************)
C2_Fallback ==
    Resolved
        => /\ thermal_data = <<>> => thermal_record = None
           /\ (/\ Applicable(thermal_data, fire_exposure_time_sec) = {}
               /\ Timed(thermal_data) # {})
                  => /\ thermal_record # None
                     /\ \E i \in Timed(thermal_data) : thermal_data[i] = Val(thermal_record)
                     /\ \A i \in Timed(thermal_data) :
                            TimeOf(Val(thermal_record)) <= TimeOf(thermal_data[i])

\* resolving at t = -100 a series that does not start with its earliest
\* record returned the record of time 0
C2_Witness ==
    /\ Resolved
    /\ fire_exposure_time_sec = 0 - 100
    /\ Len(thermal_data) = 2
    /\ thermal_data[1].time_minutes = Some(3600)
    /\ thermal_data[2].time_minutes = Some(0)
    /\ thermal_record = Some(thermal_data[2])

(***************************************************************************)
(* C3.  Stable tie-break: the result is determined by the series and the   *)
(* exposure time alone, and when several records share the selected time   *)
(* (the greatest time <= t, or else the least time) the one that occurs    *)
(* first in the series is returned.                                        *)
(***************************************************************************)
\* the first position of a record of time tm
FirstAt(data, tm) ==
    CHOOSE i \in Timed(data) :
        /\ TimeOf(data[i]) = tm
        /\ \A j \in Timed(data) : TimeOf(data[j]) = tm => i <= j

C3_StableTieBreak ==
    (Resolved /\ thermal_record # None)
        => thermal_record
               = Some(thermal_data[FirstAt(thermal_data, TimeOf(Val(thermal_record)))])

\* two different records share the selected time, and the first was returned
C3_Witness ==
    /\ Resolved
    /\ thermal_record # None
    /\ \E i, j \in Timed(thermal_data) :
           /\ i < j
           /\ TimeOf(thermal_data[i]) = TimeOf(thermal_data[j])
           /\ thermal_data[i] # thermal_data[j]
           /\ thermal_record = Some(thermal_data[i])
           /\ \A k \in Timed(thermal_data) : k < i => TimeOf(thermal_data[k]) # TimeOf(thermal_data[i])

(***************************************************************************)
(* C7.  A concrete ring whose temperature is absent, or whose strain       *)
(* lookup is undefined or zero, adds zero to both running totals: zero to  *)
(* the capacity sum of calculate_capacity_for_time and zero to the         *)
(* stiffness sum of calculate_stiffness_for_time; no error is raised.      *)
(***************************************************************************)
Discretized == "discretize_concrete_core_into_rings" \in called

Summed ==
    /\ "calculate_capacity_for_time" \in called
    /\ "calculate_stiffness_for_time" \in called

\* the ring has no temperature, or its strain is undefined or zero
RingDestroyed(ring) ==
    \/ ring.temperature_celsius = None
    \/ concrete_strain_by_temp(Val(ring.temperature_celsius)) = None
    \/ concrete_strain_by_temp(Val(ring.temperature_celsius)) = Some(0)

C7_DestroyedRingAddsNothing ==
    /\ (Discretized /\ rings # <<>>)
           => raised \cap {"calculate_capacity_for_time", "calculate_stiffness_for_time"} = {}
    /\ (Discretized /\ Summed)
           => \A k \in 1..Len(rings) :
                  RingDestroyed(rings[k])
                      => /\ N_parts.concrete[k] = 0
                         /\ EI_parts.concrete[k] = 0

(***************************************************************************)
(* C8.  As claimed: for every plan of num_rings entries without the        *)
(* fill-remaining sentinel, the ring depths (outer - inner) of the         *)
(* returned rings sum to the core radius diameter/2 - wall thickness, and  *)
(* each ring's area is pi (outer^2 - inner^2).  (Stated for a series that  *)
(* is not empty, so that rings are returned, and a core radius >= 0.)      *)
(***************************************************************************)
RECURSIVE SumDepths(_)
SumDepths(rs) ==
    IF rs = <<>>
    THEN 0
    ELSE (Head(rs).outer_radius_mm - Head(rs).inner_radius_mm) + SumDepths(Tail(rs))

RECURSIVE SumPlan(_)
SumPlan(plan) ==
    IF plan = <<>> THEN 0 ELSE Val(Head(plan)) + SumPlan(Tail(plan))

Min(a, b) == IF a <= b THEN a ELSE b

\* the plan has num_rings entries, none of them the sentinel
FullPlanNoSentinel ==
    /\ ring_thicknesses # None
    /\ Len(Val(ring_thicknesses)) = num_rings
    /\ \A k \in 1..num_rings : Val(ring_thicknesses)[k] # None

AreasArePiTimesSquares ==
    \A k \in 1..Len(rings) :
        rings[k].area_mm2
            = rings[k].outer_radius_mm * rings[k].outer_radius_mm
                  - rings[k].inner_radius_mm * rings[k].inner_radius_mm

C8_DepthsSumToCore ==
    (/\ Discretized
     /\ thermal_data # <<>>
     /\ CoreRadius(diameter_mm, thickness_mm) >= 0
     /\ FullPlanNoSentinel)
        => /\ SumDepths(rings) = CoreRadius(diameter_mm, thickness_mm)
           /\ AreasArePiTimesSquares

(***************************************************************************)
(* C8, amended.  For a series that is not empty, a core radius >= 0 and a  *)
(* plan of num_rings thicknesses >= 0 without the sentinel, the ring       *)
(* depths sum to the smaller of the core radius and the sum of the plan's  *)
(* thicknesses (hence to the core radius exactly when the plan adds up to  *)
(* at least the core radius), and each ring's area is                      *)
(* pi (outer^2 - inner^2).                                                 *)
(***************************************************************************)
C8_DepthsSumToPlanOrCore ==
    (/\ Discretized
     /\ thermal_data # <<>>
     /\ CoreRadius(diameter_mm, thickness_mm) >= 0
     /\ FullPlanNoSentinel)
        => /\ Len(rings) = num_rings
           /\ SumDepths(rings)
                  = Min(CoreRadius(diameter_mm, thickness_mm),
                        SumPlan(Val(ring_thicknesses)))
           /\ AreasArePiTimesSquares

\* a plan that stops short of the axis: the depths of the rings of [10, 20] in
\* a core of 40 mm sum to 30
C8_Witness ==
    /\ Discretized
    /\ thermal_data # <<>>
    /\ CoreRadius(diameter_mm, thickness_mm) = 40
    /\ ring_thicknesses = Some(<<Some(10), Some(20)>>)
    /\ num_rings = 2
    /\ SumDepths(rings) = 30
    /\ rings[2].inner_radius_mm = 10

(***************************************************************************)
(* C9.  Ring chain: for a core radius >= 0 and a plan of thicknesses >= 0  *)
(* whose last entry is the fill-remaining sentinel, walked to its end      *)
(* (num_rings >= the plan's length; e.g. the reference plan                *)
(* [10,20,20,20,20,20,None] with 7 rings), every returned ring has         *)
(* outer >= inner >= 0, the first ring's outer radius is the core radius,  *)
(* each later ring's outer radius is the previous ring's inner radius, and *)
(* the last ring's inner radius is 0, so that the depths sum to the core   *)
(* radius.  (An empty series returns no rings.)                            *)
(***************************************************************************)
PlanEndsWithSentinel ==
    /\ ring_thicknesses # None
    /\ Len(Val(ring_thicknesses)) >= 1
    /\ Val(ring_thicknesses)[Len(Val(ring_thicknesses))] = None
    /\ \A k \in 1..Len(Val(ring_thicknesses)) :
           Val(ring_thicknesses)[k] # None => Val(Val(ring_thicknesses)[k]) >= 0
    /\ num_rings >= Len(Val(ring_thicknesses))

C9_RingChain ==
    (/\ Discretized
     /\ thermal_data # <<>>
     /\ CoreRadius(diameter_mm, thickness_mm) >= 0
     /\ PlanEndsWithSentinel)
        => /\ Len(rings) = num_rings
           /\ \A k \in 1..Len(rings) :
                  /\ rings[k].outer_radius_mm >= rings[k].inner_radius_mm
                  /\ rings[k].inner_radius_mm >= 0
           /\ rings[1].outer_radius_mm = CoreRadius(diameter_mm, thickness_mm)
           /\ \A k \in 2..Len(rings) :
                  rings[k].outer_radius_mm = rings[k - 1].inner_radius_mm
           /\ rings[Len(rings)].inner_radius_mm = 0
           /\ SumDepths(rings) = CoreRadius(diameter_mm, thickness_mm)

\* the reference plan in a core of 168 mm: the seventh ring took the remaining
\* 58 mm
C9_Witness ==
    /\ Discretized
    /\ thermal_data # <<>>
    /\ CoreRadius(diameter_mm, thickness_mm) = 168
    /\ ring_thicknesses = Some(RING_THICKNESSES_MM)
    /\ num_rings = NUM_CONCRETE_RINGS
    /\ Len(rings) = 7
    /\ rings[7].outer_radius_mm = 58
    /\ rings[7].inner_radius_mm = 0

(***************************************************************************)
(* C10.  Fixed channel mapping: the temperature of the ring of index       *)
(* 0,1,2,3,4,5,6 is the value of temp_t2, temp_t3, temp_t5, temp_t6,       *)
(* temp_t7, temp_t8, temp_t9 in the record get_thermal_record_for_time     *)
(* returns for the same series and time; temp_t1 (steel wall) and temp_t4  *)
(* (reinforcement) are assigned to no ring.                                *)
(***************************************************************************)
RingChannels ==
    <<"temp_t2", "temp_t3", "temp_t5", "temp_t6", "temp_t7", "temp_t8", "temp_t9">>

\* no other channel of the record holds the value of channel ch
OnlyIn(record, ch) ==
    \A other \in (DOMAIN record) \ {ch, "time_minutes"} : record[other] # record[ch]

C10_ChannelMapping ==
    (Discretized /\ Resolved)
        => \A k \in 1..Min(Len(rings), 7) :
               /\ thermal_record = None => rings[k].temperature_celsius = None
               /\ thermal_record # None
                      => /\ rings[k].temperature_celsius
                                = Val(thermal_record)[RingChannels[k]]
                         /\ OnlyIn(Val(thermal_record), RingChannels[k])
                                => /\ rings[k].temperature_celsius
                                          # Val(thermal_record).temp_t1
                                   /\ rings[k].temperature_celsius
                                          # Val(thermal_record).temp_t4

\* seven rings under a record whose channels all differ: the third ring got
\* temp_t5, not temp_t4
C10_Witness ==
    /\ Discretized
    /\ Resolved
    /\ Len(rings) = 7
    /\ thermal_record # None
    /\ Val(thermal_record).temp_t4 = Some(400)
    /\ Val(thermal_record).temp_t5 = Some(500)
    /\ rings[3].temperature_celsius = Some(500)
    /\ rings[7].temperature_celsius = Some(900)

(***************************************************************************)
(* C4.  The degradation lookups clamp: at every temperature <= 20 the      *)
(* steel and the concrete coefficient are 1.00 and the strain is 2.5; at   *)
(* every temperature >= 1200 both coefficients are 0.0 and the strain is   *)
(* undefined (None).                                                       *)
(***************************************************************************)
C4_Clamping ==
    /\ (lookup_fn = "steel_working_condition_coeff" /\ lookup_arg <= 20)
           => lookup_result = Some(1000000)
    /\ (lookup_fn = "concrete_working_condition_coeff" /\ lookup_arg <= 20)
           => lookup_result = Some(1000000)
    /\ (lookup_fn = "concrete_strain_by_temp" /\ lookup_arg <= 20)
           => lookup_result = Some(2500000)
    /\ (lookup_fn = "steel_working_condition_coeff" /\ lookup_arg >= 1200)
           => lookup_result = Some(0)
    /\ (lookup_fn = "concrete_working_condition_coeff" /\ lookup_arg >= 1200)
           => lookup_result = Some(0)
    /\ (lookup_fn = "concrete_strain_by_temp" /\ lookup_arg >= 1200)
           => lookup_result = None

\* the strain was looked up below the first breakpoint and was clamped
C4_Witness ==
    /\ lookup_fn = "concrete_strain_by_temp"
    /\ lookup_arg < 20
    /\ lookup_result = Some(2500000)

(***************************************************************************)
(* C5.  Interpolation is exact at the breakpoints: at every breakpoint x_i *)
(* of the steel, concrete, strain and reduction tables the lookup returns  *)
(* the tabulated v_i (get_reduction_coeff(1.0) = 0.54), and between two    *)
(* adjacent breakpoints with tabulated values it returns the point of the  *)
(* straight line through them:                                             *)
(*     (result - v_i) * (x_j - x_i) = (v_j - v_i) * (x - x_i).             *)
(***************************************************************************)
OnSegments(table, x, y) ==
    /\ \A i \in 1..Len(table) : x = table[i][1] => y = table[i][2]
    /\ \A i \in 1..(Len(table) - 1) :
           (table[i][1] <= x /\ x <= table[i + 1][1])
               => (y - table[i][2]) * (table[i + 1][1] - table[i][1])
                      = (table[i + 1][2] - table[i][2]) * (x - table[i][1])

C6_StrainFlatUpTo1200 ==
    lookup_fn = "concrete_strain_by_temp"
        => /\ (600 <= lookup_arg /\ lookup_arg < 1200) => lookup_result = Some(25000000)
           /\ lookup_result = None => lookup_arg >= 1200

(***************************************************************************)
(* C11.  As claimed: when no snapshot can be resolved (the series is empty *)
(* or none of its records has a numeric time), the discretizer still       *)
(* returns the rings of the plan, with the radii and areas it returns      *)
(* under a snapshot, and every ring's temperature is absent.               *)
(***************************************************************************)
\* the radii and the area of every ring
RingGeometry(rs) ==
    [k \in 1..Len(rs) |-> <<rs[k].outer_radius_mm, rs[k].inner_radius_mm, rs[k].area_mm2>>]

\* the rings of the same section and plan under a series that has a snapshot
RingsUnderSnapshot ==
    discretize_concrete_core_into_rings(
        diameter_mm, thickness_mm, <<ThermalRecord(Some(0), Rising)>>,
        fire_exposure_time_sec, num_rings, ring_thicknesses)

NoSnapshot == Timed(thermal_data) = {}

AllTemperaturesAbsent(rs) == \A k \in 1..Len(rs) : rs[k].temperature_celsius = None

C11_RingsWithoutSnapshot ==
    (Discretized /\ NoSnapshot)
        => /\ RingGeometry(rings) = RingGeometry(RingsUnderSnapshot)
           /\ AllTemperaturesAbsent(rings)

(***************************************************************************)
(* C11, amended.  When the series is not empty and none of its records has *)
(* a numeric time, the discretizer returns the rings of the plan with the  *)
(* radii and areas it returns under a snapshot, and every ring's           *)
(* temperature is absent; when the series is empty it returns no ring.     *)
(***************************************************************************)
C11_RingsWithoutTimedRecord ==
    (Discretized /\ NoSnapshot)
        => IF thermal_data = <<>>
           THEN rings = <<>>
           ELSE /\ RingGeometry(rings) = RingGeometry(RingsUnderSnapshot)
                /\ AllTemperaturesAbsent(rings)

\* the reference plan in a core of 168 mm under a series without times
C11_Witness ==
    /\ Discretized
    /\ thermal_data # <<>>
    /\ NoSnapshot
    /\ ring_thicknesses = Some(RING_THICKNESSES_MM)
    /\ Len(rings) = NUM_CONCRETE_RINGS
    /\ rings[1].area_mm2 > 0
    /\ rings[NUM_CONCRETE_RINGS].area_mm2 > 0
    /\ AllTemperaturesAbsent(rings)

(***************************************************************************)
(* C12.  When the critical load is zero or undefined (the total stiffness  *)
(* is <= 0, or the height is <= 0, or the effective-length coefficient is  *)
(* <= 0), calculate_final_capacity returns N_cr = 0, slenderness = 0,      *)
(* reduction coefficient 1.0 and N_final = N_total: no buckling penalty.   *)
(* The reduction step does not raise: an evaluation ends without a result  *)
(* only where the discretizer divides by num_rings = 0.                    *)
(***************************************************************************)
Returned(p) == evals # <<>> /\ evals[p].pc = "returned"

NoCriticalLoad(p) ==
    \/ evals[p].total_stiffness <= 0
    \/ height_m <= 0
    \/ effective_length_coeff <= 0

C12_NoCriticalLoadNoPenalty ==
    evals # <<>> =>
        \A p \in Evals :
            /\ (Returned(p) /\ NoCriticalLoad(p))
                   => /\ evals[p].result.N_cr = 0
                      /\ evals[p].result.slenderness = 0
                      /\ evals[p].result.reduction_coeff = 1000000
                      /\ evals[p].result.N_total = evals[p].N_total
                      /\ evals[p].result.N_final = evals[p].N_total
            /\ evals[p].pc = "raised"
                   => DiscretizeRaises(thermal_data, num_rings, ring_thicknesses)

\* a section with capacity and stiffness, and a height of 0
C12_Witness ==
    /\ Returned(1)
    /\ height_m <= 0
    /\ evals[1].total_stiffness > 0
    /\ evals[1].N_total > 0
    /\ evals[1].result.N_final = evals[1].N_total
    /\ evals[1].result.N_cr = 0

(***************************************************************************)
(* C14.  Result consistency: in every tuple calculate_final_capacity       *)
(* returns, reduction_coeff = get_reduction_coeff(slenderness), N_final =  *)
(* N_total * reduction_coeff, and slenderness^2 * N_cr = N_total whenever  *)
(* N_cr > 0 (the slenderness is the square root of N_total / N_cr, to the  *)
(* thousandth); hence, N_total being >= 0, N_total / 10 <= N_final <=      *)
(* N_total (to the unit).                                                  *)
(***************************************************************************)
C14_ResultConsistent ==
    evals # <<>> =>
        \A p \in Evals :
            Returned(p) =>
                LET r == evals[p].result
                    ratio == LongDivision(r.N_total, r.N_cr, 6)[1]
                IN  /\ r.N_total = evals[p].N_total
                    /\ r.reduction_coeff = get_reduction_coeff(r.slenderness)
                    /\ r.N_final = TimesCoeff(r.N_total, r.reduction_coeff)
                    /\ r.N_cr > 0
                           => /\ r.slenderness * r.slenderness <= ratio
                              /\ ratio < (r.slenderness + 1) * (r.slenderness + 1)
                    /\ r.N_total >= 0
                           => /\ r.N_total \div 10 <= r.N_final
                              /\ r.N_final <= r.N_total

\* a slender column: the coefficient is read between two breakpoints
C14_Witness ==
    /\ Returned(1)
    /\ evals[1].result.N_cr > 0
    /\ evals[1].result.slenderness > 2400
    /\ evals[1].result.slenderness < 2600
    /\ evals[1].result.reduction_coeff < 150000
    /\ evals[1].result.reduction_coeff > 125000
    /\ evals[1].result.N_final > 0
    /\ evals[1].result.N_final < evals[1].result.N_total

(***************************************************************************)
(* C13.  get_reduction_coeff is monotonically non-increasing in the        *)
(* slenderness and its value always lies in [0.1, 1.0]: it is 1.0 for      *)
(* every slenderness <= 0.0 (and up to 0.2) and exactly 0.1 for every      *)
(* slenderness >= 3.0.                                                     *)
(***************************************************************************)
C13_ReductionNonIncreasing ==
    lookup_fn = "get_reduction_coeff"
        => /\ Val(lookup_result) = get_reduction_coeff(lookup_arg)
           /\ Val(lookup_result) >= 100000
           /\ Val(lookup_result) <= 1000000
           /\ lookup_arg <= 200 => Val(lookup_result) = 1000000
           /\ lookup_arg >= 3000 => Val(lookup_result) = 100000
           /\ \A s \in SlendernessInputs :
                  s = lookup_arg - 1 => get_reduction_coeff(s) >= Val(lookup_result)
           /\ \A i \in 1..Len(ReductionTable) :
                  ReductionTable[i][1] <= lookup_arg
                      => ReductionTable[i][2] >= Val(lookup_result)

\* between the breakpoints 0.6 and 0.8, where the table falls fastest
C13_Witness ==
    /\ lookup_fn = "get_reduction_coeff"
    /\ lookup_arg = 700
    /\ Val(lookup_result) < 785000
    /\ Val(lookup_result) > 600000

(***************************************************************************)
(* C15.  As claimed: reinforcement counts only if it is enabled and the    *)
(* bar count is > 0: with use_reinforcement = True and rebar_count = 0,    *)
(* calculate_capacity_for_time and calculate_stiffness_for_time both       *)
(* return what they return with use_reinforcement = False.                 *)
(***************************************************************************)
CapacityWithoutReinforcement ==
    calculate_capacity_for_time(
        diameter_mm, thickness_mm, thermal_data, fire_exposure_time_sec,
        steel_strength_mpa, concrete_strength_mpa, FALSE,
        rebar_diameter_mm, rebar_count, num_rings, ring_thicknesses)

StiffnessWithoutReinforcement ==
    calculate_stiffness_for_time(
        diameter_mm, thickness_mm, thermal_data, fire_exposure_time_sec,
        concrete_strength_mpa, steel_elastic_modulus_mpa, FALSE,
        rebar_diameter_mm, rebar_count, num_rings, ring_thicknesses)

C15_NoBarsNoReinforcement ==
    (Summed /\ use_reinforcement /\ rebar_count = 0)
        => /\ N_total = CapacityWithoutReinforcement
           /\ total_stiffness = StiffnessWithoutReinforcement

(***************************************************************************)
(* C16.  Rebar additivity: for fixed geometry, materials, series and       *)
(* exposure time, the capacity with reinforcement enabled minus the        *)
(* capacity with it disabled is the rebar-only term                        *)
(* bar_count * pi d^2 / 4 * gamma_st(temp_t4) * strength, the stiffness    *)
(* enabled minus disabled is (8 I_self + 4 A r^2) * gamma_st(temp_t4) *    *)
(* E_steel (both terms are 0 when the record or its temp_t4 is absent),    *)
(* and the toggle leaves the contributions of the concrete rings and of    *)
(* the steel wall as they are.                                             *)
(***************************************************************************)
\* gamma_st(temp_t4) of the resolved record, in units of 0.005; None without temp_t4
RebarGamma ==
    LET record == get_thermal_record_for_time(thermal_data, fire_exposure_time_sec)
    IN  IF record # None /\ Val(record).temp_t4 # None
        THEN Some(steel_working_condition_coeff(Val(Val(record).temp_t4)) \div CoeffGrain)
        ELSE None

\* bar_count * pi d^2 / 4 * gamma_st * strength, in the unit of N_total
RebarOnlyCapacity ==
    IF RebarGamma = None
    THEN 0
    ELSE rebar_count * ((rebar_diameter_mm * rebar_diameter_mm) \div 4)
             * Val(RebarGamma) * steel_strength_mpa

\* (8 I_self + 4 A r^2) * gamma_st * E_steel, in the unit of total_stiffness
RebarOnlyStiffness ==
    IF RebarGamma = None
    THEN 0
    ELSE LET r == diameter_mm \div 2 - thickness_mm - REBAR_COVER_MM - rebar_diameter_mm \div 2
             d2 == rebar_diameter_mm * rebar_diameter_mm
         IN  (8 * ((d2 * d2) \div 16) + 4 * d2 * r * r)
                 * ((Val(RebarGamma) * steel_elastic_modulus_mpa) \div 200)

C16_RebarAdditivity ==
    Summed =>
        /\ N_total - CapacityWithoutReinforcement
               = IF use_reinforcement THEN RebarOnlyCapacity ELSE 0
        /\ total_stiffness - StiffnessWithoutReinforcement
               = IF use_reinforcement THEN RebarOnlyStiffness ELSE 0
        /\ N_parts.concrete
               = CapacityParts(diameter_mm, thickness_mm, thermal_data, fire_exposure_time_sec,
                     steel_strength_mpa, concrete_strength_mpa, FALSE,
                     rebar_diameter_mm, rebar_count, num_rings, ring_thicknesses).concrete
        /\ N_parts.steel
               = CapacityParts(diameter_mm, thickness_mm, thermal_data, fire_exposure_time_sec,
                     steel_strength_mpa, concrete_strength_mpa, FALSE,
                     rebar_diameter_mm, rebar_count, num_rings, ring_thicknesses).steel
        /\ EI_parts.concrete
               = StiffnessParts(diameter_mm, thickness_mm, thermal_data, fire_exposure_time_sec,
                     concrete_strength_mpa, steel_elastic_modulus_mpa, FALSE,
                     rebar_diameter_mm, rebar_count, num_rings, ring_thicknesses).concrete
        /\ EI_parts.steel
               = StiffnessParts(diameter_mm, thickness_mm, thermal_data, fire_exposure_time_sec,
                     concrete_strength_mpa, steel_elastic_modulus_mpa, FALSE,
                     rebar_diameter_mm, rebar_count, num_rings, ring_thicknesses).steel

\* eight bars at 400 degrees beside heated rings and a heated wall
C16_Witness ==
    /\ Summed
    /\ use_reinforcement
    /\ rebar_count = 8
    /\ RebarGamma = Some(140)
    /\ N_parts.rebar > 0
    /\ EI_parts.rebar > 0
    /\ N_total > N_parts.rebar
    /\ total_stiffness > EI_parts.rebar
    /\ Len(N_parts.concrete) >= 2

(***************************************************************************)
(* C17.  Missing channel data degrades gracefully: if the resolved record  *)
(* lacks the steel channel temp_t1, the reinforcement channel temp_t4 or a *)
(* ring's channel, then that component adds zero to the capacity and zero  *)
(* to the stiffness, every other component adds what it adds when no       *)
(* channel is missing, and calculate_final_capacity returns its result     *)
(* (an evaluation ends without one only where the discretizer divides by   *)
(* num_rings = 0).                                                         *)
(***************************************************************************)
\* the record with every missing channel set to 20 degrees
WithChannelsFilled(record) ==
    [k \in DOMAIN record |->
        IF k # "time_minutes" /\ record[k] = None THEN Some(20) ELSE record[k]]

FilledSeries == [i \in DOMAIN thermal_data |-> WithChannelsFilled(thermal_data[i])]

ResolvedFor(p) == get_thermal_record_for_time(thermal_data, evals[p].fire_exposure_time_sec)

CapacityPartsFilled(p) ==
    CapacityParts(diameter_mm, thickness_mm, FilledSeries, evals[p].fire_exposure_time_sec,
        steel_strength_mpa, concrete_strength_mpa, use_reinforcement,
        rebar_diameter_mm, rebar_count, num_rings, ring_thicknesses)

StiffnessPartsFilled(p) ==
    StiffnessParts(diameter_mm, thickness_mm, FilledSeries, evals[p].fire_exposure_time_sec,
        concrete_strength_mpa, steel_elastic_modulus_mpa, use_reinforcement,
        rebar_diameter_mm, rebar_count, num_rings, ring_thicknesses)

\* the channel of the k-th ring (from 1) is missing in the record
RingChannelMissing(record, k) ==
    \/ ChannelOfRing(k - 1) = None
    \/ record[Val(ChannelOfRing(k - 1))] = None

SumsDone(p) == evals # <<>> /\ evals[p].pc \in {"reduce", "returned"}

C17_MissingChannelAddsNothing ==
    evals # <<>> =>
        \A p \in Evals :
            /\ evals[p].pc = "raised"
                   => DiscretizeRaises(thermal_data, num_rings, ring_thicknesses)
            /\ (SumsDone(p) /\ ResolvedFor(p) # None)
                   => LET record == Val(ResolvedFor(p))
                          N == evals[p].N_parts
                          EI == evals[p].EI_parts
                      IN  /\ IF record.temp_t1 = None
                             THEN N.steel = 0 /\ EI.steel = 0
                             ELSE /\ N.steel = CapacityPartsFilled(p).steel
                                  /\ EI.steel = StiffnessPartsFilled(p).steel
                          /\ IF record.temp_t4 = None
                             THEN N.rebar = 0 /\ EI.rebar = 0
                             ELSE /\ N.rebar = CapacityPartsFilled(p).rebar
                                  /\ EI.rebar = StiffnessPartsFilled(p).rebar
                          /\ Len(N.concrete) = Len(CapacityPartsFilled(p).concrete)
                          /\ Len(EI.concrete) = Len(StiffnessPartsFilled(p).concrete)
                          /\ \A k \in 1..Len(N.concrete) :
                                 IF RingChannelMissing(record, k)
                                 THEN N.concrete[k] = 0 /\ EI.concrete[k] = 0
                                 ELSE /\ N.concrete[k] = CapacityPartsFilled(p).concrete[k]
                                      /\ EI.concrete[k] = StiffnessPartsFilled(p).concrete[k]

\* the wall's, the bars' and the second ring's channel are missing; the first
\* ring carries the column
C17_Witness ==
    /\ Returned(1)
    /\ use_reinforcement
    /\ ResolvedFor(1) # None
    /\ Val(ResolvedFor(1)).temp_t1 = None
    /\ Val(ResolvedFor(1)).temp_t4 = None
    /\ Val(ResolvedFor(1)).temp_t3 = None
    /\ Len(evals[1].N_parts.concrete) >= 2
    /\ evals[1].N_parts.concrete[1] > 0
    /\ evals[1].N_parts.concrete[2] = 0
    /\ evals[1].N_parts.steel = 0
    /\ evals[1].result.N_cr > 0
    /\ evals[1].result.N_final > 0

(***************************************************************************)
(* C18.  Unheated section: when every channel of the resolved record is    *)
(* <= 100 degrees and reinforcement is disabled, every degradation         *)
(* coefficient is 1.0 and, with the default plan of 7 rings, N_total is    *)
(* concrete_strength * pi (D/2 - t)^2 + steel_strength * (area of the      *)
(* steel annulus): the ring areas sum to the core area; N_final is that    *)
(* N_total times get_reduction_coeff of the resulting slenderness.         *)
(***************************************************************************)
Channels ==
    {"temp_t1", "temp_t2", "temp_t3", "temp_t4", "temp_t5", "temp_t6", "temp_t7",
     "temp_t8", "temp_t9"}

Unheated(p) ==
    /\ ResolvedFor(p) # None
    /\ \A ch \in Channels :
           /\ Val(ResolvedFor(p))[ch] # None
           /\ Val(Val(ResolvedFor(p))[ch]) <= 100
    /\ ~use_reinforcement

DefaultPlan ==
    /\ ring_thicknesses = Some(RING_THICKNESSES_MM)
    /\ num_rings = NUM_CONCRETE_RINGS
    /\ CoreRadius(diameter_mm, thickness_mm) >= 0

RingsFor(p) ==
    discretize_concrete_core_into_rings(diameter_mm, thickness_mm, thermal_data,
        evals[p].fire_exposure_time_sec, num_rings, ring_thicknesses)

\* the areas, in units of pi mm^2
CoreArea == CoreRadius(diameter_mm, thickness_mm) * CoreRadius(diameter_mm, thickness_mm)

SteelAnnulusArea ==
    (diameter_mm \div 2) * (diameter_mm \div 2) - CoreArea

\* the nominal capacity in the unit of N_total (a coefficient of 1.0 is
\* 1000000 \div CoeffGrain units)
NominalCapacity ==
    (concrete_strength_mpa * CoreArea + steel_strength_mpa * SteelAnnulusArea)
        * (1000000 \div CoeffGrain)

C18_UnheatedSection ==
    evals # <<>> =>
        \A p \in Evals :
            Unheated(p) =>
                /\ \A ch \in Channels :
                       /\ steel_working_condition_coeff(Val(Val(ResolvedFor(p))[ch])) = 1000000
                       /\ concrete_working_condition_coeff(Val(Val(ResolvedFor(p))[ch])) = 1000000
                /\ (DefaultPlan /\ SumsDone(p))
                       => /\ Sum([k \in 1..Len(RingsFor(p)) |-> RingsFor(p)[k].area_mm2]) = CoreArea
                          /\ evals[p].N_total = NominalCapacity
                /\ (DefaultPlan /\ Returned(p))
                       => /\ evals[p].result.N_total = NominalCapacity
                          /\ evals[p].result.N_final
                                 = TimesCoeff(NominalCapacity,
                                       get_reduction_coeff(evals[p].result.slenderness))

\* the 32 x 2 mm section (a core of 14 mm: two rings of the plan hold
\* concrete) at 20 degrees, slender enough to be reduced
C18_Witness ==
    /\ Returned(1)
    /\ Unheated(1)
    /\ DefaultPlan
    /\ Len(RingsFor(1)) = NUM_CONCRETE_RINGS
    /\ RingsFor(1)[1].area_mm2 > 0
    /\ RingsFor(1)[2].area_mm2 > 0
    /\ evals[1].result.N_total = NominalCapacity
    /\ evals[1].result.N_total > 0
    /\ evals[1].result.slenderness > 200
    /\ evals[1].result.N_final < evals[1].result.N_total

(***************************************************************************)
(* C19.  As claimed: for a thermal series in which every channel           *)
(* temperature is non-decreasing with the time offset, N_final of          *)
(* calculate_final_capacity is non-increasing in the exposure time, for    *)
(* exposure times from the earliest offset up to the first time at which   *)
(* a concrete ring's strain becomes undefined.                             *)
(***************************************************************************)
\* every record has a time and all channels, and a later record is nowhere cooler
NonDecreasingSeries ==
    /\ thermal_data # <<>>
    /\ \A i \in DOMAIN thermal_data :
           /\ HasTime(thermal_data[i])
           /\ \A ch \in Channels : thermal_data[i][ch] # None
    /\ \A i, j \in DOMAIN thermal_data :
           TimeOf(thermal_data[i]) <= TimeOf(thermal_data[j])
               => \A ch \in Channels :
                      Val(thermal_data[i][ch]) <= Val(thermal_data[j][ch])

\* no ring of the evaluation has a temperature with an undefined strain
StrainsDefined(p) ==
    \A k \in 1..Len(RingsFor(p)) :
        RingsFor(p)[k].temperature_celsius # None
            => concrete_strain_by_temp(Val(RingsFor(p)[k].temperature_celsius)) # None

\* p and q have both returned, q for the later time
InTimeOrder(p, q) ==
    /\ Returned(p)
    /\ Returned(q)
    /\ NonDecreasingSeries
    /\ TimeOf(MinByTime(TimedRecords(thermal_data))) <= evals[p].fire_exposure_time_sec
    /\ evals[p].fire_exposure_time_sec <= evals[q].fire_exposure_time_sec

C19_FinalCapacityNonIncreasing ==
    evals # <<>> =>
        \A p, q \in Evals :
            (InTimeOrder(p, q) /\ StrainsDefined(q))
                => evals[q].result.N_final <= evals[p].result.N_final

(***************************************************************************)
(* C19, amended.  For such a series N_total, the total stiffness and N_cr  *)
(* are non-increasing in the exposure time (also beyond the time at which  *)
(* a ring's strain becomes undefined), and N_final is non-increasing from  *)
(* one exposure time to a later one whenever the slenderness at the later  *)
(* time is not below the slenderness at the earlier; where the slenderness *)
(* falls, N_final can rise.                                                *)
(***************************************************************************)
C19_CapacityAndStiffnessNonIncreasing ==
    evals # <<>> =>
        \A p, q \in Evals :
            InTimeOrder(p, q)
                => /\ evals[q].result.N_total <= evals[p].result.N_total
                   /\ evals[q].total_stiffness <= evals[p].total_stiffness
                   /\ evals[q].result.N_cr <= evals[p].result.N_cr
                   /\ evals[q].result.slenderness >= evals[p].result.slenderness
                          => evals[q].result.N_final <= evals[p].result.N_final

\* the core heats from 20 to 1000 degrees: capacity and stiffness fall, the
\* slenderness falls from 2.54 to 2.50, and N_final rises
C19_Witness ==
    /\ InTimeOrder(1, 2)
    /\ StrainsDefined(2)
    /\ evals[1].fire_exposure_time_sec < evals[2].fire_exposure_time_sec
    /\ evals[2].result.N_total < evals[1].result.N_total
    /\ evals[2].total_stiffness < evals[1].total_stiffness
    /\ evals[2].result.N_cr > 0
    /\ evals[2].result.slenderness < evals[1].result.slenderness
    /\ evals[2].result.N_final > evals[1].result.N_final

(***************************************************************************)
(* C20.  Evaluations are stateless and safe to run side by side on shared  *)
(* inputs: no step of calculate_final_capacity modifies the thermal series *)
(* or the ring-thickness plan (nor any other argument), so under every     *)
(* interleaving of the evaluations each returns what it returns when run   *)
(* alone, and what a step has computed does not depend on the steps taken  *)
(* before it.                                                              *)
(***************************************************************************)
\* the result of the evaluation p run alone
Alone(p) ==
    calculate_final_capacity(
        diameter_mm, thickness_mm, height_m, effective_length_coeff, thermal_data,
        evals[p].fire_exposure_time_sec, steel_strength_mpa, steel_elastic_modulus_mpa,
        concrete_strength_mpa, use_reinforcement, rebar_diameter_mm, rebar_count,
        num_rings, ring_thicknesses)

ResultsAsAlone ==
    evals # <<>> =>
        \A p \in Evals :
            /\ Returned(p) => evals[p].result = Alone(p)
            /\ SumsDone(p) => evals[p].N_total = Alone(p).N_total

C20_StatelessEvaluations ==
    /\ []ResultsAsAlone
    /\ [][inputVars' = inputVars]_vars

\* one evaluation has returned while the other, for another exposure time,
\* is between its steps
C20_Witness ==
    /\ Returned(1)
    /\ evals[2].pc = "capacity"
    /\ evals[1].fire_exposure_time_sec # evals[2].fire_exposure_time_sec
    /\ evals[1].result.N_final > 0
    /\ evals[1].result = Alone(1)
    /\ ring_thicknesses # None
    /\ thermal_data # <<>>

(***************************************************************************)
(* The application (app/main.py): the loaded series are searched for the   *)
(* one closest to the section, the capacity is computed at every minute of *)
(* the series' time grid, and the fire resistance limit is read off the    *)
(* curve.  The sections are the small ones of the evaluations, the load is *)
(* in the unit of N_total, the limits are in thousandths of a minute,      *)
(* rounded down.                                                           *)
(***************************************************************************)
Abs(x) == IF x < 0 THEN 0 - x ELSE x

\* Python's min(sorted(values), key=lambda v: abs(v - x)): the least of the
\* values closest to x
ClosestTo(values, x) ==
    CHOOSE v \in values :
        \A w \in values : Abs(v - x) < Abs(w - x) \/ (Abs(v - x) = Abs(w - x) /\ v <= w)

\* get_closest_thermal_data: None, or <<the series>>
get_closest_thermal_data(data, diameter, thickness) ==
    IF DOMAIN data = {}
    THEN None
    ELSE LET available_diameters == {k[1] : k \in DOMAIN data}
             available_thicknesses == {k[2] : k \in DOMAIN data}
             closest_diameter == ClosestTo(available_diameters, diameter)
             closest_thickness == ClosestTo(available_thicknesses, thickness)
         IN  IF <<closest_diameter, closest_thickness>> \in DOMAIN data
             THEN Some(data[<<closest_diameter, closest_thickness>>])
             ELSE None

\* Python's "if closest_data:": neither None nor an empty list
HasData(closest) == closest # None /\ Val(closest) # <<>>

\* times = range(0, max(int(time_minutes) // 60) + 1), or [0] without a time
SweepTimes(data) ==
    IF TimedRecords(data) = <<>>
    THEN <<0>>
    ELSE LET last == TimeOf(MaxByTime(TimedRecords(data))) \div 60
         IN  [k \in 1..(last + 1) |-> k - 1]

\* the record the sweep takes at t_sec (main.py 335-343)
SweepRecord(data, t_sec) ==
    IF SuitableRecords(data, t_sec) # <<>>
    THEN Some(MaxByTime(SuitableRecords(data, t_sec)))
    ELSE IF TimedRecords(data) # <<>>
         THEN Some(MinByTime(TimedRecords(data)))
         ELSE None

nominal_thicknesses_mm ==
    <<Some(10), Some(20), Some(20), Some(20), Some(20), Some(20), None>>

\* sum(t for t in nominal_thicknesses_mm[:i] if t is not None)
RECURSIVE NominalSum(_)
NominalSum(i) ==
    IF i = 0
    THEN 0
    ELSE NominalSum(i - 1)
             + (IF nominal_thicknesses_mm[i] # None THEN Val(nominal_thicknesses_mm[i]) ELSE 0)

\* ring i (from 0) of the sweep: its radii, area, and what it adds to
\* N_total and to total_stiffness
SweepRing(i, core, record, fc) ==
    LET outer_r == core - NominalSum(i)
        inner_r == IF i < 6
                   THEN Max(0, outer_r - (IF nominal_thicknesses_mm[i + 1] # None
                                          THEN Val(nominal_thicknesses_mm[i + 1])
                                          ELSE outer_r))
                   ELSE 0
        area == IF outer_r > inner_r THEN outer_r * outer_r - inner_r * inner_r ELSE 0
        temp == IF record # None THEN Val(record)[Val(ChannelOfRing(i))] ELSE None
        gamma_bt == IF temp # None
                    THEN Some(InGrains(concrete_working_condition_coeff(Val(temp))))
                    ELSE None
        strain == IF temp # None THEN concrete_strain_by_temp(Val(temp)) ELSE None
        I_ring == IF outer_r > inner_r THEN Pow4(outer_r) - Pow4(inner_r) ELSE 0
    IN  [outer_r |-> outer_r,
         inner_r |-> inner_r,
         area |-> area,
         N_ring |-> IF area > 0 /\ gamma_bt # None THEN area * Val(gamma_bt) * fc ELSE 0,
         stiffness |-> IF /\ I_ring # 0
                          /\ gamma_bt # None
                          /\ strain # None
                          /\ Val(strain) > 0
                       THEN I_ring * ConcreteModulus(Val(temp), fc)
                       ELSE 0]

\* N_total and total_stiffness of one grid time (main.py 346-420); the
\* reinforcement's strength is its own input
SweepSums(diameter, thickness, data, t_min, fy, E, fc, use, d, count, rebar_fy) ==
    LET record == SweepRecord(data, t_min * 60)
        core == diameter \div 2 - thickness
        ring == [k \in 1..7 |-> SweepRing(k - 1, core, record, fc)]
        temp_steel == IF record # None THEN Val(record).temp_t1 ELSE None
        R_out_steel == diameter \div 2
        R_in_steel == R_out_steel - thickness
        N_steel_ring ==
            IF temp_steel # None
            THEN steel_ring_area(diameter, thickness)
                     * InGrains(steel_working_condition_coeff(Val(temp_steel))) * fy
            ELSE 0
        stiffness_steel ==
            IF temp_steel # None
            THEN (Pow4(R_out_steel) - Pow4(R_in_steel)) * SteelModulus(Val(temp_steel), E)
            ELSE 0
        temp_rebar == IF record # None THEN Val(record).temp_t4 ELSE None
        reinforced == use /\ temp_rebar # None
        N_rebar ==
            IF reinforced
            THEN ((d * d) \div 4) * count
                     * InGrains(steel_working_condition_coeff(Val(temp_rebar))) * rebar_fy
            ELSE 0
        stiffness_rebar ==
            IF reinforced
            THEN LET rebar_distance_mm == diameter \div 2 - thickness - 35 - d \div 2
                     I_self_bar == Pow4(d) \div 16
                     rebar_area_one == d * d
                     I_rebar == 8 * I_self_bar
                                    + 4 * rebar_area_one * rebar_distance_mm * rebar_distance_mm
                 IN  I_rebar * SteelModulus(Val(temp_rebar), E)
            ELSE 0
    IN  [N_total |-> Sum([k \in 1..7 |-> ring[k].N_ring]) + N_steel_ring + N_rebar,
         total_stiffness |-> Sum([k \in 1..7 |-> ring[k].stiffness])
                                 + stiffness_steel + stiffness_rebar]

\* N_final of one grid time (main.py 332-428): N_cr, the slenderness, the
\* coefficient and N_final are computed as calculate_final_capacity does
SweepPoint(diameter, thickness, height, coeff, data, t_min, fy, E, fc, use, d, count, rebar_fy) ==
    LET sums == SweepSums(diameter, thickness, data, t_min, fy, E, fc, use, d, count, rebar_fy)
    IN  Reduce(sums.total_stiffness, sums.N_total, height, coeff).N_final

\* the first i with list[i - 1] >= load > list[i] (from i on), or 0
RECURSIVE FirstDrop(_, _, _)
FirstDrop(list, load, i) ==
    IF i > Len(list)
    THEN 0
    ELSE IF list[i - 1] >= load /\ list[i] < load
         THEN i
         ELSE FirstDrop(list, load, i + 1)

\* a slip: the search takes the last drop below the load
RECURSIVE LastDrop(_, _, _)
LastDrop(list, load, i) ==
    IF i > Len(list)
    THEN 0
    ELSE IF LastDrop(list, load, i + 1) # 0
         THEN LastDrop(list, load, i + 1)
         ELSE IF list[i - 1] >= load /\ list[i] < load THEN i ELSE 0

\* t1 + (load - n1) * (t2 - t1) / (n2 - n1) for the grid times t1 = i - 2 and
\* t2 = i - 1 of the points i - 1 and i
Interpolated(list, load, i) ==
    LET t1 == i - 2
        n1 == list[i - 1]
        n2 == list[i]
    IN  IF n1 # n2
        THEN 1000 * t1 + LongDivision(n1 - load, n1 - n2, 3)[1]
        ELSE 1000 * t1

FireLimitAtLastDrop(list, load) ==
    IF LastDrop(list, load, 2) # 0
    THEN Some(Interpolated(list, load, LastDrop(list, load, 2)))
    ELSE None

\* the search of the capacity chart (main.py 1059-1071)
FireLimitTime(list, load) ==
    IF FirstDrop(list, load, 2) # 0
    THEN Some(Interpolated(list, load, FirstDrop(list, load, 2)))
    ELSE None

\* the search of the safety factor chart (main.py 1131-1140), over
\* n = N / normative_load: n >= 1 exactly when N >= normative_load
FireResistanceLimitN(list, load) ==
    IF load > 0 /\ FirstDrop(list, load, 2) # 0
    THEN Some(Interpolated(list, load, FirstDrop(list, load, 2)))
    ELSE None

\* closest_data = get_closest_thermal_data(thermal_data, diameter, thickness)
SelectData ==
    /\ pc = "select"
    /\ closest_data' = get_closest_thermal_data(datasets, diameter_mm, thickness_mm)
    /\ pc' = IF HasData(closest_data')
             THEN IF SweepTimes(Val(closest_data')) # <<>> THEN "sweep" ELSE "chart"
             ELSE "done"
    /\ UNCHANGED <<lookupVars, inputVars, resultVars, validation, datasets, normative_load,
                   rebar_strength_normative, N_final_list, fire_limit_time,
                   fire_resistance_limit_n>>

\* one turn of "for t_min in times": N_final_list.append(N_final)
SweepStep ==
    /\ pc = "sweep"
    /\ N_final_list' = Append(N_final_list,
           SweepPoint(diameter_mm, thickness_mm, height_m, effective_length_coeff,
                      Val(closest_data), SweepTimes(Val(closest_data))[Len(N_final_list) + 1],
                      steel_strength_mpa, steel_elastic_modulus_mpa, concrete_strength_mpa,
                      use_reinforcement, rebar_diameter_mm, rebar_count,
                      rebar_strength_normative))
    /\ pc' = IF Len(N_final_list') = Len(SweepTimes(Val(closest_data))) THEN "chart" ELSE "sweep"
    /\ UNCHANGED <<lookupVars, inputVars, resultVars, validation, datasets, closest_data,
                   normative_load, rebar_strength_normative, fire_limit_time,
                   fire_resistance_limit_n>>

\* the two charts: each searches the limit when there is a curve
FindFireLimit ==
    /\ pc = "chart"
    /\ fire_limit_time' =
           IF N_final_list # <<>> THEN FireLimitTime(N_final_list, normative_load) ELSE None
    /\ fire_resistance_limit_n' =
           IF N_final_list # <<>>
           THEN FireResistanceLimitN(N_final_list, normative_load)
           ELSE None
    /\ pc' = "done"
    /\ UNCHANGED <<lookupVars, inputVars, resultVars, validation, datasets, closest_data,
                   normative_load, rebar_strength_normative, N_final_list>>

(***************************************************************************)
(* The inputs of the application: series whose capacity curve drops, rises *)
(* and drops, drops twice, or stays; loaded alone, in a full grid of       *)
(* sections, and in a grid with a section missing; loads below, between    *)
(* and above the capacities of the curve.                                  *)
(***************************************************************************)
Drop == <<ThermalRecord(Some(0), Cold), ThermalRecord(Some(60), Hot)>>

RiseDrop ==
    <<ThermalRecord(Some(0), Hot), ThermalRecord(Some(60), Cold), ThermalRecord(Some(120), Hot)>>

DropRiseDrop ==
    <<ThermalRecord(Some(0), Cold), ThermalRecord(Some(60), Hot),
      ThermalRecord(Some(120), Warm), ThermalRecord(Some(180), Hot)>>

Flat == <<ThermalRecord(Some(0), Cold), ThermalRecord(Some(60), Cold)>>

Untimed == <<ThermalRecord(None, Cold)>>

Unsorted == <<ThermalRecord(Some(60), Missing), ThermalRecord(Some(0), Cold)>>

AppSeries == {Drop, RiseDrop, DropRiseDrop, Flat, Untimed, Unsorted}

\* a dictionary of one section
Only(key, series) == [k \in {key} |-> series]

AppDatasets ==
    {<<>>, Only(<<32, 2>>, <<>>)}
        \cup {Only(<<32, 2>>, series) : series \in AppSeries}
        \cup {[k \in {<<20, 2>>, <<32, 4>>} |-> IF k[1] = 20 THEN Drop ELSE Flat],
              [k \in {<<20, 2>>, <<20, 4>>, <<32, 2>>, <<32, 4>>} |->
                  IF k[1] = 20
                  THEN IF k[2] = 2 THEN Drop ELSE Flat
                  ELSE IF k[2] = 2 THEN RiseDrop ELSE DropRiseDrop]}

\* <<diameter, thickness>> of the column
AppSections == {<<32, 2>>, <<24, 2>>}

AppLengths == {<<5, 1>>, <<25, 1>>}

AppLoads == {0, 5000, 100000, 128395, 600000, 1970176, 3000000}

InitApp ==
    /\ NoLookup
    /\ NoSeries
    /\ \E g \in AppSections :
           /\ diameter_mm = g[1]
           /\ thickness_mm = g[2]
    /\ num_rings = NUM_CONCRETE_RINGS
    /\ ring_thicknesses = Some(RING_THICKNESSES_MM)
    /\ \E l \in AppLengths :
           /\ height_m = l[1]
           /\ effective_length_coeff = l[2]
    /\ steel_strength_mpa = 40
    /\ concrete_strength_mpa = 40
    /\ steel_elastic_modulus_mpa = 2000
    /\ use_reinforcement \in BOOLEAN
    /\ rebar_diameter_mm = 2
    /\ rebar_count = 8
    /\ called = {}
    /\ thermal_record = None
    /\ rings = <<>>
    /\ N_total = 0
    /\ total_stiffness = 0
    /\ N_parts = NoParts
    /\ EI_parts = NoParts
    /\ raised = {}
    /\ evals = <<>>
    /\ validation = NoValidation
    /\ datasets \in AppDatasets
    /\ closest_data = None
    /\ normative_load \in AppLoads
    /\ rebar_strength_normative \in {40, 60}
    /\ N_final_list = <<>>
    /\ fire_limit_time = None
    /\ fire_resistance_limit_n = None
    /\ pc = "select"

NextApp ==
    \/ SelectData
    \/ SweepStep
    \/ FindFireLimit

SpecApp == InitApp /\ [][NextApp]_vars

(***************************************************************************)
(* The validators (app/validation.py).  Each returns <<is_valid, message>>;*)
(* the message stands for the text of the check that failed.  Diameters,   *)
(* thicknesses and bar diameters are in whole mm (a comparison with        *)
(* diameter_mm / 2 is taken on the doubles), strengths and moduli in MPa,  *)
(* the load in kN, the time in minutes, and heights in tenths of a metre   *)
(* (MIN_HEIGHT_M 0.5 m is 5, MAX_HEIGHT_M 30 m is 300).                    *)
(***************************************************************************)
MIN_DIAMETER_MM == 200

MAX_DIAMETER_MM == 1200

MIN_THICKNESS_MM == 3

MAX_THICKNESS_MM == 30

MIN_HEIGHT_M == 5

MAX_HEIGHT_M == 300

\* a slip: the wall's upper limit is not checked
ValidateGeometryAnyThickness(diameter, thickness, height) ==
    IF diameter <= 0 THEN <<FALSE, "diameter must be positive">>
    ELSE IF diameter < MIN_DIAMETER_MM THEN <<FALSE, "diameter below the minimum">>
    ELSE IF diameter > MAX_DIAMETER_MM THEN <<FALSE, "diameter above the maximum">>
    ELSE IF thickness <= 0 THEN <<FALSE, "thickness must be positive">>
    ELSE IF thickness < MIN_THICKNESS_MM THEN <<FALSE, "thickness below the minimum">>
    ELSE IF 2 * thickness >= diameter THEN <<FALSE, "thickness not below the radius">>
    ELSE IF diameter - 2 * thickness < 2 * 50 THEN <<FALSE, "core radius too small">>
    ELSE IF height <= 0 THEN <<FALSE, "height must be positive">>
    ELSE IF height < MIN_HEIGHT_M THEN <<FALSE, "height below the minimum">>
    ELSE IF height > MAX_HEIGHT_M THEN <<FALSE, "height above the maximum">>
    ELSE <<TRUE, "">>

validate_geometry(diameter, thickness, height) ==
    IF diameter <= 0 THEN <<FALSE, "diameter must be positive">>
    ELSE IF diameter < MIN_DIAMETER_MM THEN <<FALSE, "diameter below the minimum">>
    ELSE IF diameter > MAX_DIAMETER_MM THEN <<FALSE, "diameter above the maximum">>
    ELSE IF thickness <= 0 THEN <<FALSE, "thickness must be positive">>
    ELSE IF thickness < MIN_THICKNESS_MM THEN <<FALSE, "thickness below the minimum">>
    ELSE IF thickness > MAX_THICKNESS_MM THEN <<FALSE, "thickness above the maximum">>
    ELSE IF 2 * thickness >= diameter THEN <<FALSE, "thickness not below the radius">>
    ELSE IF diameter - 2 * thickness < 2 * 50 THEN <<FALSE, "core radius too small">>
    ELSE IF height <= 0 THEN <<FALSE, "height must be positive">>
    ELSE IF height < MIN_HEIGHT_M THEN <<FALSE, "height below the minimum">>
    ELSE IF height > MAX_HEIGHT_M THEN <<FALSE, "height above the maximum">>
    ELSE <<TRUE, "">>

validate_materials(fy, E, fc) ==
    IF fy <= 0 THEN <<FALSE, "steel strength must be positive">>
    ELSE IF fy < 200 THEN <<FALSE, "steel strength too low">>
    ELSE IF fy > 1000 THEN <<FALSE, "steel strength too high">>
    ELSE IF E <= 0 THEN <<FALSE, "steel modulus must be positive">>
    ELSE IF E < 150000 THEN <<FALSE, "steel modulus too low">>
    ELSE IF E > 250000 THEN <<FALSE, "steel modulus too high">>
    ELSE IF fc <= 0 THEN <<FALSE, "concrete strength must be positive">>
    ELSE IF fc < 5 THEN <<FALSE, "concrete strength too low">>
    ELSE IF fc > 120 THEN <<FALSE, "concrete strength too high">>
    ELSE <<TRUE, "">>

validate_loads(normative_load_kn, fire_exposure_time_min) ==
    IF normative_load_kn < 0 THEN <<FALSE, "load must not be negative">>
    ELSE IF normative_load_kn > 50000 THEN <<FALSE, "load too high">>
    ELSE IF fire_exposure_time_min < 0 THEN <<FALSE, "time must not be negative">>
    ELSE IF fire_exposure_time_min > 360 THEN <<FALSE, "time too long">>
    ELSE <<TRUE, "">>

\* a slip: the bar diameter's upper limit is not checked
ValidateReinforcementAnyDiameter(count, d, diameter, thickness) ==
    IF count < 0 THEN <<FALSE, "bar count must not be negative">>
    ELSE IF count > 40 THEN <<FALSE, "too many bars">>
    ELSE IF d < 4 THEN <<FALSE, "bar diameter too small">>
    ELSE IF 2 * d > diameter - 2 * thickness THEN <<FALSE, "bar diameter above the core radius">>
    ELSE <<TRUE, "">>

validate_reinforcement(count, d, diameter, thickness) ==
    IF count < 0 THEN <<FALSE, "bar count must not be negative">>
    ELSE IF count > 40 THEN <<FALSE, "too many bars">>
    ELSE IF d < 4 THEN <<FALSE, "bar diameter too small">>
    ELSE IF d > 60 THEN <<FALSE, "bar diameter too large">>
    ELSE IF 2 * d > diameter - 2 * thickness THEN <<FALSE, "bar diameter above the core radius">>
    ELSE <<TRUE, "">>

\* a slip: the reinforcement is validated whether it is used or not
ValidateAllInputsAndBars(diameter, thickness, height, fy, E, fc, load, time, use, count, d) ==
    IF ~validate_geometry(diameter, thickness, height)[1]
    THEN <<FALSE, validate_geometry(diameter, thickness, height)[2]>>
    ELSE IF ~validate_materials(fy, E, fc)[1]
    THEN <<FALSE, validate_materials(fy, E, fc)[2]>>
    ELSE IF ~validate_loads(load, time)[1]
    THEN <<FALSE, validate_loads(load, time)[2]>>
    ELSE IF ~validate_reinforcement(count, d, diameter, thickness)[1]
    THEN <<FALSE, validate_reinforcement(count, d, diameter, thickness)[2]>>
    ELSE <<TRUE, "">>

validate_all_inputs(diameter, thickness, height, fy, E, fc, load, time, use, count, d) ==
    IF ~validate_geometry(diameter, thickness, height)[1]
    THEN <<FALSE, validate_geometry(diameter, thickness, height)[2]>>
    ELSE IF ~validate_materials(fy, E, fc)[1]
    THEN <<FALSE, validate_materials(fy, E, fc)[2]>>
    ELSE IF ~validate_loads(load, time)[1]
    THEN <<FALSE, validate_loads(load, time)[2]>>
    ELSE IF use /\ ~validate_reinforcement(count, d, diameter, thickness)[1]
    THEN <<FALSE, validate_reinforcement(count, d, diameter, thickness)[2]>>
    ELSE <<TRUE, "">>

\* the other variables of the application
scriptVars ==
    <<datasets, closest_data, normative_load, rebar_strength_normative,
      N_final_list, fire_limit_time, fire_resistance_limit_n, pc>>

(***************************************************************************)
(* The inputs of the validators: values at, just inside and just outside   *)
(* every limit.                                                            *)
(***************************************************************************)
Diameters == {0 - 10, 0, 199, 200, 201, 1200, 1201}

Thicknesses == {0 - 1, 0, 2, 3, 30, 31}

Heights == {0 - 5, 0, 4, 5, 300, 301}

SteelStrengths == {0, 199, 200, 1000, 1001}

SteelModuli == {0, 149999, 150000, 250000, 250001}

ConcreteStrengths == {0, 4, 5, 120, 121}

Loads == {0 - 1, 0, 50000, 50001}

FireTimes == {0 - 1, 0, 360, 361}

BarCounts == {0 - 1, 0, 40, 41}

BarDiameters == {3, 4, 60, 61, 70}

\* sections for validate_reinforcement alone, which takes any section
BarSections == {<<100, 30>>, <<200, 30>>, <<1200, 3>>}

\* the inputs of validate_all_inputs, group by group
AllGeometries == {<<d, t, h>> : d \in {199, 200, 1200}, t \in {3, 30, 31}, h \in {5, 301}}

AllMaterials ==
    {<<200, 150000, 5>>, <<199, 150000, 5>>, <<1000, 250001, 120>>, <<1000, 250000, 121>>}

AllLoads == {<<0, 0>>, <<50001, 0>>, <<50000, 361>>, <<50000, 360>>}

AllBars == {<<count, d>> : count \in {0, 40, 41}, d \in BarDiameters}

ValidateGeometry ==
    /\ validation.fn = "none"
    /\ \E diameter \in Diameters, thickness \in Thicknesses, height \in Heights :
           validation' =
               [fn |-> "validate_geometry",
                args |-> [diameter_mm |-> diameter, thickness_mm |-> thickness,
                          height_m |-> height],
                result |-> validate_geometry(diameter, thickness, height)]
    /\ UNCHANGED <<lookupVars, inputVars, resultVars, scriptVars>>

ValidateMaterials ==
    /\ validation.fn = "none"
    /\ \E fy \in SteelStrengths, E \in SteelModuli, fc \in ConcreteStrengths :
           validation' =
               [fn |-> "validate_materials",
                args |-> [steel_strength_mpa |-> fy, steel_elastic_modulus_mpa |-> E,
                          concrete_strength_mpa |-> fc],
                result |-> validate_materials(fy, E, fc)]
    /\ UNCHANGED <<lookupVars, inputVars, resultVars, scriptVars>>

ValidateLoads ==
    /\ validation.fn = "none"
    /\ \E load \in Loads, time \in FireTimes :
           validation' =
               [fn |-> "validate_loads",
                args |-> [normative_load_kn |-> load, fire_exposure_time_min |-> time],
                result |-> validate_loads(load, time)]
    /\ UNCHANGED <<lookupVars, inputVars, resultVars, scriptVars>>

ValidateReinforcement ==
    /\ validation.fn = "none"
    /\ \E count \in BarCounts, d \in BarDiameters, g \in BarSections :
           validation' =
               [fn |-> "validate_reinforcement",
                args |-> [rebar_count |-> count, rebar_diameter_mm |-> d,
                          diameter_mm |-> g[1], thickness_mm |-> g[2]],
                result |-> validate_reinforcement(count, d, g[1], g[2])]
    /\ UNCHANGED <<lookupVars, inputVars, resultVars, scriptVars>>

ValidateAllInputs ==
    /\ validation.fn = "none"
    /\ \E g \in AllGeometries, m \in AllMaterials, l \in AllLoads, use \in BOOLEAN,
          b \in AllBars :
           validation' =
               [fn |-> "validate_all_inputs",
                args |-> [diameter_mm |-> g[1], thickness_mm |-> g[2], height_m |-> g[3],
                          steel_strength_mpa |-> m[1], steel_elastic_modulus_mpa |-> m[2],
                          concrete_strength_mpa |-> m[3],
                          normative_load_kn |-> l[1], fire_exposure_time_min |-> l[2],
                          use_reinforcement |-> use,
                          rebar_count |-> b[1], rebar_diameter_mm |-> b[2]],
                result |-> validate_all_inputs(g[1], g[2], g[3], m[1], m[2], m[3],
                                               l[1], l[2], use, b[1], b[2])]
    /\ UNCHANGED <<lookupVars, inputVars, resultVars, scriptVars>>

InitValidation ==
    /\ NoLookup
    /\ NoSeries
    /\ NoGeometry
    /\ NoMaterials
    /\ NoResults

NextValidation ==
    \/ ValidateGeometry
    \/ ValidateMaterials
    \/ ValidateLoads
    \/ ValidateReinforcement
    \/ ValidateAllInputs

SpecValidation == InitValidation /\ [][NextValidation]_vars

(***************************************************************************)
(* C21.  The capacity curve is the final capacity at each grid time: every *)
(* point of N_final_list equals N_final of calculate_final_capacity for    *)
(* the same section, lengths, materials, reinforcement settings, series    *)
(* and time (the sweep works on the reference plan of seven rings).        *)
(***************************************************************************)
FinalCapacityAt(t_min) ==
    calculate_final_capacity(
        diameter_mm, thickness_mm, height_m, effective_length_coeff,
        Val(closest_data), t_min * 60,
        steel_strength_mpa, steel_elastic_modulus_mpa, concrete_strength_mpa,
        use_reinforcement, rebar_diameter_mm, rebar_count,
        NUM_CONCRETE_RINGS, Some(RING_THICKNESSES_MM)).N_final

C21_SweepIsFinalCapacity ==
    \A k \in 1..Len(N_final_list) : N_final_list[k] = FinalCapacityAt(k - 1)

(***************************************************************************)
(* C22.  A degenerate ring (inner radius >= outer radius: the plan exceeds *)
(* the remaining radius, or the core radius is not positive) is returned   *)
(* with area 0, and adds nothing to the capacity and nothing to the        *)
(* stiffness.                                                              *)
(***************************************************************************)
Degenerate(ring) == ring.inner_radius_mm >= ring.outer_radius_mm

RingsOfInputs ==
    discretize_concrete_core_into_rings(
        diameter_mm, thickness_mm, thermal_data, fire_exposure_time_sec,
        num_rings, ring_thicknesses)

C22_DegenerateRingAddsNothing ==
    /\ "discretize_concrete_core_into_rings" \in called =>
           \A k \in 1..Len(rings) : Degenerate(rings[k]) => rings[k].area_mm2 = 0
    /\ "calculate_capacity_for_time" \in called =>
           \A k \in 1..Len(N_parts.concrete) :
               Degenerate(RingsOfInputs[k]) => N_parts.concrete[k] = 0
    /\ "calculate_stiffness_for_time" \in called =>
           \A k \in 1..Len(EI_parts.concrete) :
               Degenerate(RingsOfInputs[k]) => EI_parts.concrete[k] = 0

(***************************************************************************)
(* C23.  A plan that is empty, or has fewer entries than num_rings, makes  *)
(* the discretizer fail with an error: it never returns rings for it.      *)
(***************************************************************************)
ShortPlan == ring_thicknesses # None /\ Len(Val(ring_thicknesses)) < num_rings

C23_ShortPlanFailsFast ==
    ShortPlan => "discretize_concrete_core_into_rings" \notin called

(***************************************************************************)
(* C24.  The reinforcement's stiffness is the closed form of eight bars    *)
(* whatever the count: with reinforcement enabled and the other inputs     *)
(* fixed, calculate_stiffness_for_time returns the same value for every    *)
(* rebar_count; the count changes only the reinforcement's capacity, which *)
(* is proportional to it.                                                  *)
(***************************************************************************)
RebarCounts == {0, 1, 8, 40}

StiffnessWithCount(count) ==
    calculate_stiffness_for_time(
        diameter_mm, thickness_mm, thermal_data, fire_exposure_time_sec,
        concrete_strength_mpa, steel_elastic_modulus_mpa, use_reinforcement,
        rebar_diameter_mm, count, num_rings, ring_thicknesses)

CapacityPartsWithCount(count) ==
    CapacityParts(
        diameter_mm, thickness_mm, thermal_data, fire_exposure_time_sec,
        steel_strength_mpa, concrete_strength_mpa, use_reinforcement,
        rebar_diameter_mm, count, num_rings, ring_thicknesses)

C24_StiffnessIgnoresRebarCount ==
    use_reinforcement =>
        /\ "calculate_stiffness_for_time" \in called =>
               \A count \in RebarCounts : StiffnessWithCount(count) = total_stiffness
        /\ "calculate_capacity_for_time" \in called =>
               \A count \in RebarCounts :
                   /\ CapacityPartsWithCount(count).concrete = N_parts.concrete
                   /\ CapacityPartsWithCount(count).steel = N_parts.steel
                   /\ CapacityPartsWithCount(count).rebar = count * CapacityPartsWithCount(1).rebar
                   /\ N_parts.rebar = rebar_count * CapacityPartsWithCount(1).rebar

C24_Witness ==
    /\ use_reinforcement
    /\ rebar_count = 8
    /\ {"calculate_stiffness_for_time", "calculate_capacity_for_time"} \subseteq called
    /\ EI_parts.rebar > 0
    /\ N_parts.rebar > 0
    /\ StiffnessWithCount(0) = total_stiffness
    /\ CapacityPartsWithCount(0).rebar = 0

(***************************************************************************)
(* C25.  Every geometry validate_geometry accepts has its diameter,        *)
(* thickness and height within GEOMETRY_LIMITS, a thickness below half the *)
(* diameter and a core radius diameter / 2 - thickness of at least 50 mm   *)
(* (so above 0), and is answered (True, ""); every geometry it rejects is  *)
(* answered (False, message) with a message that is not empty.             *)
(***************************************************************************)
WithinGeometryLimits(diameter, thickness, height) ==
    /\ MIN_DIAMETER_MM <= diameter /\ diameter <= MAX_DIAMETER_MM
    /\ MIN_THICKNESS_MM <= thickness /\ thickness <= MAX_THICKNESS_MM
    /\ MIN_HEIGHT_M <= height /\ height <= MAX_HEIGHT_M

C25_AcceptedGeometry ==
    validation.fn = "validate_geometry" =>
        LET a == validation.args
        IN  IF validation.result[1]
            THEN /\ validation.result = <<TRUE, "">>
                 /\ WithinGeometryLimits(a.diameter_mm, a.thickness_mm, a.height_m)
                 /\ 2 * a.thickness_mm < a.diameter_mm
                 /\ a.diameter_mm - 2 * a.thickness_mm >= 2 * 50
                 /\ a.diameter_mm - 2 * a.thickness_mm > 0
            ELSE /\ validation.result[1] = FALSE
                 /\ validation.result[2] # ""

C25_Witness ==
    /\ validation.fn = "validate_geometry"
    /\ validation.args = [diameter_mm |-> 200, thickness_mm |-> 30, height_m |-> 5]
    /\ validation.result = <<TRUE, "">>

(***************************************************************************)
(* C26.  validate_all_inputs answers (True, "") exactly when the geometry, *)
(* the materials and the loads pass and, only if reinforcement is used,    *)
(* the reinforcement passes too; otherwise it answers (False, message)     *)
(* with the message of the first validator that fails, in the order        *)
(* geometry, materials, loads, reinforcement.  With reinforcement not      *)
(* used, the bar count and diameter never cause a rejection.               *)
(***************************************************************************)
\* the answers of the validators on the arguments a, in order; the
\* reinforcement is asked only if it is used
AnswersInOrder(a) ==
    << validate_geometry(a.diameter_mm, a.thickness_mm, a.height_m),
       validate_materials(a.steel_strength_mpa, a.steel_elastic_modulus_mpa,
                          a.concrete_strength_mpa),
       validate_loads(a.normative_load_kn, a.fire_exposure_time_min) >>
    \o (IF a.use_reinforcement
        THEN << validate_reinforcement(a.rebar_count, a.rebar_diameter_mm,
                                       a.diameter_mm, a.thickness_mm) >>
        ELSE <<>>)

AnswerWithBars(a, b) ==
    validate_all_inputs(a.diameter_mm, a.thickness_mm, a.height_m,
                        a.steel_strength_mpa, a.steel_elastic_modulus_mpa,
                        a.concrete_strength_mpa, a.normative_load_kn,
                        a.fire_exposure_time_min, a.use_reinforcement, b[1], b[2])

C26_ValidateAllInputs ==
    validation.fn = "validate_all_inputs" =>
        LET a == validation.args
            answers == AnswersInOrder(a)
            failing == {k \in 1..Len(answers) : ~answers[k][1]}
        IN  /\ validation.result = <<TRUE, "">> <=> failing = {}
            /\ failing # {} =>
                   \E k \in failing :
                       /\ \A j \in failing : k <= j
                       /\ validation.result = <<FALSE, answers[k][2]>>
            /\ ~a.use_reinforcement =>
                   \A b \in AllBars : AnswerWithBars(a, b) = validation.result

C26_Witness ==
    /\ validation.fn = "validate_all_inputs"
    /\ ~validation.args.use_reinforcement
    /\ validation.args.rebar_count = 41
    /\ validation.args.rebar_diameter_mm = 70
    /\ validation.result = <<TRUE, "">>

(***************************************************************************)
(* C27.  Without reinforcement (use_reinforcement = False) the five        *)
(* outputs of calculate_final_capacity do not depend on rebar_diameter_mm, *)
(* on rebar_count or on the reinforcement's channel temp_t4: a run that    *)
(* differs only in these returns the same tuple.                           *)
(***************************************************************************)
\* the series with temp_t4 of every record set to t4
WithReinforcementChannel(data, t4) ==
    [k \in 1..Len(data) |-> [data[k] EXCEPT !.temp_t4 = t4]]

OtherBars == {<<2, 8>>, <<4, 0>>, <<4, 40>>}

OtherReinforcementChannels == {None, Some(20), Some(1000)}

\* the tuple evaluation p would return with the bars b = <<diameter, count>>,
\* the channel t4 and the switch use
ResultWith(p, b, t4, use) ==
    calculate_final_capacity(
        diameter_mm, thickness_mm, height_m, effective_length_coeff,
        WithReinforcementChannel(thermal_data, t4), evals[p].fire_exposure_time_sec,
        steel_strength_mpa, steel_elastic_modulus_mpa, concrete_strength_mpa,
        use, b[1], b[2], num_rings, ring_thicknesses)

C27_NoReinforcementNoInterference ==
    \A p \in Evals :
        (Returned(p) /\ ~use_reinforcement) =>
            \A b \in OtherBars, t4 \in OtherReinforcementChannels :
                ResultWith(p, b, t4, FALSE) = evals[p].result

C27_Witness ==
    \E p \in Evals :
        /\ Returned(p)
        /\ ~use_reinforcement
        /\ evals[p].result.N_final > 0
        /\ ResultWith(p, <<4, 40>>, Some(20), FALSE) = evals[p].result
        /\ ResultWith(p, <<4, 40>>, Some(20), TRUE).N_total > evals[p].result.N_total
        /\ ResultWith(p, <<4, 40>>, Some(20), TRUE).N_cr > evals[p].result.N_cr

(***************************************************************************)
(* C28.  Whatever validate_all_inputs accepts with reinforcement used has  *)
(* the bars inside the core: the radius of the bars' circle,               *)
(* diameter / 2 - thickness - REBAR_COVER_MM - rebar_diameter / 2, is      *)
(* above 0.                                                                *)
(***************************************************************************)
\* twice rebar_distance_mm of calculate_stiffness_for_time
TwiceRebarDistance(a) ==
    a.diameter_mm - 2 * a.thickness_mm - 2 * REBAR_COVER_MM - a.rebar_diameter_mm

AcceptedWithBars ==
    /\ validation.fn = "validate_all_inputs"
    /\ validation.args.use_reinforcement
    /\ validation.result[1]

C28_BarsInsideCore == AcceptedWithBars => TwiceRebarDistance(validation.args) > 0

C28_Witness ==
    /\ AcceptedWithBars
    /\ validation.args.diameter_mm = 200
    /\ validation.args.thickness_mm = 30
    /\ validation.args.rebar_diameter_mm = 60
    /\ TwiceRebarDistance(validation.args) = 2 * 5

(***************************************************************************)
(* C29.  The fire resistance limit is read at the first pair of            *)
(* consecutive grid times t1, t2 with capacity(t1) >= normative_load and   *)
(* capacity(t2) < normative_load, and lies in [t1, t2]; when the capacity  *)
(* never drops below the load from at or above it (it stays below, or it   *)
(* stays at or above), no limit is reported.  Both charts report the same. *)
(***************************************************************************)
\* the points i at which the curve drops below the load
DropsBelowLoad ==
    {i \in 2..Len(N_final_list) :
        N_final_list[i - 1] >= normative_load /\ N_final_list[i] < normative_load}

ChartsDrawn == pc = "done" /\ N_final_list # <<>>

C29_LimitAtFirstDrop ==
    ChartsDrawn =>
        /\ fire_resistance_limit_n = fire_limit_time
        /\ IF DropsBelowLoad = {}
           THEN fire_limit_time = None
           ELSE \E i \in DropsBelowLoad :
                    /\ \A j \in DropsBelowLoad : i <= j
                    /\ fire_limit_time # None
                    /\ 1000 * (i - 2) <= Val(fire_limit_time)
                    /\ Val(fire_limit_time) <= 1000 * (i - 1)

\* the curve drops twice; the limit is inside the first minute
C29_Witness ==
    /\ ChartsDrawn
    /\ DropsBelowLoad = {2, 4}
    /\ fire_limit_time # None
    /\ Val(fire_limit_time) > 0
    /\ Val(fire_limit_time) < 1000

(***************************************************************************)
(* C30.  With at least one series loaded, get_closest_thermal_data returns *)
(* a series, never None: the closest diameter and the closest thickness    *)
(* together are a key of the loaded data.                                  *)
(***************************************************************************)
C30_LoadedDataGiveSeries ==
    (pc # "select" /\ DOMAIN datasets # {}) => closest_data # None

====
